---- MODULE Spec2Model ----
(***************************************************************************)
(* Model of polyvers' command/configuration engine (polyvers/cmdlets.py): *)
(* the config-file registry (CfgFilesRegistry), the config-file merge of  *)
(* Cmd.initialize / Cmd.read_config_files, the flag/alias inheritance of  *)
(* Cmd._inherit_parent_cmd and the static chaining of chain_cmds.         *)
(*                                                                         *)
(* Paths and file names are sequences of one-character strings, so that   *)
(* the string operations of the code (endswith, rstrip, splitext, split)  *)
(* are computed character by character.                                    *)
(***************************************************************************)
EXTENDS Integers, Sequences, FiniteSets, TLC

VARIABLES
    fs_files,       \* the regular files of the file system (set of paths)
    fs_dirs,        \* the directories of the file system (set of paths)
    file_cfg,       \* what loading each file yields (config, parse error, vanished)
    config_paths,   \* the candidate paths to read config files from
    cfr,            \* a stand-alone CfgFilesRegistry instance
    cmds,           \* the command instances created so far (sequence of nodes)
    class_flags,    \* the class-level `flags` of each command class
    class_aliases,  \* the class-level `aliases` of each command class
    last,           \* the last operation: its name, inputs, result, exception
    nops            \* how many operations have run

vars == <<fs_files, fs_dirs, file_cfg, config_paths, cfr, cmds, class_flags, class_aliases, last, nops>>

-----------------------------------------------------------------------------
(* Bounds of the model.                                                    *)

\* longest path_list handed to collect_fpaths / longest config_paths
MaxPathList == 2
\* how many registry operations one behaviour performs
MaxOps == 2
\* longest visit-record list handed to _consolidate
MaxVisited == 4

-----------------------------------------------------------------------------
(* Characters and strings.                                                 *)

\* code points of the characters the model's paths are made of
Ord(c) ==
    CASE c = "." -> 46 [] c = "/" -> 47
      [] c = "a" -> 97 [] c = "b" -> 98 [] c = "c" -> 99 [] c = "d" -> 100
      [] c = "j" -> 106 [] c = "n" -> 110 [] c = "o" -> 111 [] c = "p" -> 112
      [] c = "s" -> 115 [] c = "t" -> 116 [] c = "x" -> 120 [] c = "y" -> 121

\* str.endswith(suffix)
EndsWith(s, suf) ==
    /\ Len(suf) <= Len(s)
    /\ SubSeq(s, Len(s) - Len(suf) + 1, Len(s)) = suf

\* str.startswith(prefix)
StartsWith(s, pre) ==
    /\ Len(pre) <= Len(s)
    /\ SubSeq(s, 1, Len(pre)) = pre

\* the characters of a string, as a set
CharsOf(s) == {s[i] : i \in 1..Len(s)}

\* str.rstrip(chars): drops every trailing character that occurs in `chars`
RECURSIVE rstrip(_, _)
rstrip(s, chars) ==
    IF s # <<>> /\ s[Len(s)] \in CharsOf(chars)
    THEN rstrip(SubSeq(s, 1, Len(s) - 1), chars)
    ELSE s

\* str.rfind(c) + 1: the position after the last occurrence of c, 0 if none
RECURSIVE RFind(_, _)
RFind(s, c) ==
    IF s = <<>> THEN 0
    ELSE IF s[Len(s)] = c THEN Len(s)
    ELSE RFind(SubSeq(s, 1, Len(s) - 1), c)

\* lexicographic order of two strings by code point (Python's str <)
RECURSIVE StrLess(_, _)
StrLess(a, b) ==
    IF b = <<>> THEN FALSE
    ELSE IF a = <<>> THEN TRUE
    ELSE IF a[1] = b[1] THEN StrLess(Tail(a), Tail(b))
    ELSE Ord(a[1]) < Ord(b[1])

\* sorted(names): the names of a set in ascending order
RECURSIVE sorted(_)
sorted(S) ==
    IF S = {} THEN <<>>
    ELSE LET m == CHOOSE x \in S : \A y \in S \ {x} : StrLess(x, y)
         IN  <<m>> \o sorted(S \ {m})

\* the elements of a sequence, as a set
Range(s) == {s[i] : i \in 1..Len(s)}

\* reversed sequence (the slice [::-1])
Reverse(s) == [i \in 1..Len(s) |-> s[Len(s) + 1 - i]]

-----------------------------------------------------------------------------
(* os.path and fileutils.                                                  *)

\* os.path.split(p): (head, tail) around the last slash
osp_split(p) ==
    LET i    == RFind(p, "/")
        head == SubSeq(p, 1, i)
        tail == SubSeq(p, i + 1, Len(p))
    IN  IF head # <<>> /\ CharsOf(head) # {"/"}
        THEN <<rstrip(head, <<"/">>), tail>>
        ELSE <<head, tail>>

\* os.path.join(a, b)
osp_join(a, b) ==
    IF StartsWith(b, <<"/">>) THEN b
    ELSE IF a = <<>> \/ EndsWith(a, <<"/">>) THEN a \o b
    ELSE a \o <<"/">> \o b

\* os.path.splitext(p)[0]: p without the extension of its last component
osp_splitext_root(p) ==
    LET sep  == RFind(p, "/")
        dot  == RFind(p, ".")
        lead == {i \in (sep + 1)..(dot - 1) : p[i] # "."}
    IN  IF dot > sep /\ lead # {} THEN SubSeq(p, 1, dot - 1) ELSE p

\* the current working directory
Cwd == <<"/", "t">>

\* fileutils.convpath(path): the absolute form of a path
convpath(path) ==
    IF StartsWith(path, <<"/">>) THEN path ELSE osp_join(Cwd, path)

\* fileutils.ensure_file_ext(fname, ext): appends ext unless already there
ensure_file_ext(fname, ext) ==
    IF EndsWith(fname, ext) THEN fname ELSE fname \o ext

\* os.path.isfile / os.path.isdir / os.listdir on the modelled file system
isfile(files, f) == f \in files
isdir(dirs, d) == d \in dirs
listdir(files, dirs, d) ==
    {osp_split(e)[2] : e \in {g \in files \cup dirs : osp_split(g)[1] = d /\ g # d}}

-----------------------------------------------------------------------------
(* CfgFilesRegistry.                                                       *)

\* the default of `supported_cfg_extensions`: '.json .py'.split()
ExtJson == <<".", "j", "s", "o", "n">>
ExtPy == <<".", "p", "y">>
supported_cfg_extensions == <<ExtJson, ExtPy>>

\* Python's None for an optional value: opt is <<>> (None) or <<value>>
None == <<>>
Some(v) == <<v>>

\* CfgFilesRegistry.__init__: the visit list is empty and the attribute
\* `collected_paths` does not exist yet
NewRegistry ==
    [visited_tuples |-> <<>>, has_collected_paths |-> FALSE, collected_paths |-> <<>>]

\* IndexedSet.add: insertion-ordered, no duplicates
iset_add(s, x) == IF x \in Range(s) THEN s ELSE Append(s, x)

\* a visit_file that puts its record in front of the earlier ones
visit_file_in_front(reg, fpath, loaded) ==
    IF loaded
    THEN [reg EXCEPT !.collected_paths = iset_add(@, fpath),
                     !.visited_tuples = <<(<<osp_split(fpath)[1], Some(osp_split(fpath)[2])>>)>> \o @]
    ELSE [reg EXCEPT !.visited_tuples = <<(<<osp_split(fpath)[1], None>>)>> \o @]

\* CfgFilesRegistry.visit_file, where `collected_paths` exists
visit_file(reg, fpath, loaded) ==
    LET sp == osp_split(fpath)
    IN  IF loaded
        THEN [reg EXCEPT !.collected_paths = iset_add(@, fpath),
                         !.visited_tuples = Append(@, <<sp[1], Some(sp[2])>>)]
        ELSE [reg EXCEPT !.visited_tuples = Append(@, <<sp[1], None>>)]

\* str.endswith(tuple): ends with any of the extensions
EndsWithAny(s, exts) == \E i \in 1..Len(exts) : EndsWith(s, exts[i])

\* first loop of try_file_extensions: probe basepath with each extension
RECURSIVE probe_extensions(_, _, _, _)
probe_extensions(st, files, basepath, exts) ==
    IF exts = <<>> THEN st
    ELSE LET f == ensure_file_ext(basepath, exts[1])
         IN  IF f \in Range(st.reg.collected_paths)
             THEN probe_extensions(st, files, basepath, Tail(exts))
             ELSE LET loaded == isfile(files, f)
                  IN  probe_extensions(
                          [reg |-> visit_file(st.reg, f, loaded),
                           loaded_any |-> st.loaded_any \/ loaded],
                          files, basepath, Tail(exts))

\* the fragments directory derived from basepath for one extension
conf_d_of(basepath, ext) == ensure_file_ext(rstrip(basepath, ext), <<".", "d">>)

\* the entries of a fragments directory in the order they are visited
frag_entries_unsorted(files, dirs, conf_d) ==
    Reverse(sorted(listdir(files, dirs, conf_d)))
frag_entries(files, dirs, conf_d) == sorted(listdir(files, dirs, conf_d))

\* whether an entry of a fragments directory counts as loaded
frag_loaded(f) == EndsWithAny(f, supported_cfg_extensions)

\* innermost loop of try_file_extensions: visit every entry of conf_d
RECURSIVE visit_fragments(_, _, _)
visit_fragments(st, conf_d, entries) ==
    IF entries = <<>> THEN st
    ELSE LET loaded == frag_loaded(entries[1])
         IN  visit_fragments(
                 [reg |-> visit_file(st.reg, osp_join(conf_d, entries[1]), loaded),
                  loaded_any |-> st.loaded_any \/ loaded],
                 conf_d, Tail(entries))

\* second loop of try_file_extensions: the fragments directories
RECURSIVE probe_conf_d(_, _, _, _, _)
probe_conf_d(st, files, dirs, basepath, exts) ==
    IF exts = <<>> THEN st
    ELSE LET conf_d == conf_d_of(basepath, exts[1])
             st1 == IF EndsWith(basepath, exts[1]) /\ isdir(dirs, conf_d)
                    THEN visit_fragments(st, conf_d, frag_entries(files, dirs, conf_d))
                    ELSE st
         IN  probe_conf_d(st1, files, dirs, basepath, Tail(exts))

\* collect_fpaths.try_file_extensions: the registry after it, and loaded_any
try_file_extensions(reg, files, dirs, basepath) ==
    LET st1 == probe_extensions([reg |-> reg, loaded_any |-> FALSE], files, basepath,
                                supported_cfg_extensions)
    IN  probe_conf_d(st1, files, dirs, basepath, <<(<<>>)>> \o supported_cfg_extensions)

\* whether _derive_config_fpaths goes on to the stripped candidate
retries(loaded_any) == ~loaded_any

\* the second half of _derive_config_fpaths: st1 is what the pass over the
\* raw candidate p gave
derive_retry(st1, files, dirs, p) ==
    IF retries(st1.loaded_any)
    THEN try_file_extensions(st1.reg, files, dirs, osp_splitext_root(p)).reg
    ELSE st1.reg

\* collect_fpaths._derive_config_fpaths
derive_config_fpaths(reg, files, dirs, path) ==
    derive_retry(try_file_extensions(reg, files, dirs, convpath(path)),
                 files, dirs, convpath(path))

\* the loop of collect_fpaths over path_list
RECURSIVE derive_all(_, _, _, _)
derive_all(reg, files, dirs, path_list) ==
    IF path_list = <<>> THEN reg
    ELSE derive_all(derive_config_fpaths(reg, files, dirs, path_list[1]),
                    files, dirs, Tail(path_list))

\* CfgFilesRegistry.collect_fpaths: the registry after the call; the call
\* returns list(collected_paths)
collect_fpaths(reg, files, dirs, path_list) ==
    derive_all([reg EXCEPT !.has_collected_paths = TRUE, !.collected_paths = <<>>],
               files, dirs, path_list)

\* the loop of _consolidate; prev is None or Some((folder, filenames))
RECURSIVE consolidate_loop(_, _, _)
consolidate_loop(visited_tuples, consolidated, prev) ==
    IF visited_tuples = <<>>
    THEN IF prev # None THEN Append(consolidated, prev[1]) ELSE consolidated
    ELSE LET b == visited_tuples[1][1]
             f == visited_tuples[1][2]
             cons1 == IF prev # None /\ prev[1][1] # b
                      THEN Append(consolidated, prev[1]) ELSE consolidated
             prev1 == IF prev = None \/ prev[1][1] # b THEN <<b, <<>>>> ELSE prev[1]
             prev2 == IF f # None /\ f[1] # <<>>
                      THEN <<prev1[1], Append(prev1[2], f[1])>> ELSE prev1
         IN  consolidate_loop(Tail(visited_tuples), cons1, Some(prev2))

\* a consolidation that also removes the groups without file names
consolidate_drop_empty(visited_tuples) ==
    SelectSeq(consolidate_loop(visited_tuples, <<>>, None), LAMBDA g : g[2] # <<>>)

\* CfgFilesRegistry._consolidate
consolidate(visited_tuples) == consolidate_loop(visited_tuples, <<>>, None)

\* CfgFilesRegistry.config_tuples
config_tuples(reg) == consolidate(reg.visited_tuples)

\* the loop of head_folder over the groups still to look at: the first
\* folder that exists, which must be a directory
RECURSIVE head_folder_loop(_, _, _)
head_folder_loop(groups, files, dirs) ==
    IF groups = <<>> THEN [ret |-> None, exc |-> "none"]
    ELSE IF groups[1][1] \in files \cup dirs
    THEN IF isdir(dirs, groups[1][1]) THEN [ret |-> Some(groups[1][1]), exc |-> "none"]
         ELSE [ret |-> None, exc |-> "AssertionError"]
    ELSE head_folder_loop(Tail(groups), files, dirs)

\* CfgFilesRegistry.head_folder
head_folder(reg, files, dirs) == head_folder_loop(config_tuples(reg), files, dirs)

-----------------------------------------------------------------------------
(* The file system and the inputs of the registry operations.              *)

\* all sequences over S of length at most n
SeqsUpTo(S, n) == UNION {[1..k -> S] : k \in 0..n}

PathCJson == Cwd \o <<"/", "c">> \o ExtJson
PathCPy == Cwd \o <<"/", "c">> \o ExtPy
DirCD == Cwd \o <<"/", "c", ".", "d">>
PathFragJson == DirCD \o <<"/", "a">> \o ExtJson
PathFragPy == DirCD \o <<"/", "a">> \o ExtPy
PathFragBad == DirCD \o <<"/", "b", "a", "d">>

\* the files and directories that may exist
RegFiles == {PathCJson, PathCPy, PathFragJson, PathFragPy, PathFragBad}
RegDirs == {DirCD}

\* the file systems: every file's folder exists
FileSystems ==
    {fs \in [files : SUBSET RegFiles, dirs : SUBSET (RegDirs \cup {Cwd})] :
        /\ Cwd \in fs.dirs
        /\ \A f \in fs.files : osp_split(f)[1] \in fs.dirs}

\* the candidate paths given to collect_fpaths: a relative base name without
\* extension and two paths with an extension
Candidates == {<<"c">>, PathCJson, PathCPy}
PathLists == SeqsUpTo(Candidates, MaxPathList)

\* the paths given to visit_file by hand
VisitPaths == {PathFragPy}

\* the record of an operation: name, input, result, registry before, exception
OpRecord(op, arg, ret, pre, exc) ==
    [op |-> op, arg |-> arg, ret |-> ret, pre |-> pre, exc |-> exc]
NoOp == OpRecord("none", <<>>, <<>>, NewRegistry, "none")

-----------------------------------------------------------------------------
(* Operations on the stand-alone registry.                                 *)

\* cfr.collect_fpaths(config_paths)
CollectFpaths ==
    /\ nops < MaxOps
    /\ \E reg \in {collect_fpaths(cfr, fs_files, fs_dirs, config_paths)} :
          /\ cfr' = reg
          /\ last' = OpRecord("collect_fpaths", config_paths, reg.collected_paths, cfr, "none")
    /\ nops' = nops + 1
    /\ UNCHANGED <<fs_files, fs_dirs, file_cfg, config_paths, cmds, class_flags, class_aliases>>

\* cfr.visit_file(fpath, loaded); before the first collect_fpaths the
\* attribute `collected_paths` is missing and a loaded visit raises
VisitFile(fpath, loaded) ==
    /\ nops < MaxOps
    /\ IF loaded /\ ~cfr.has_collected_paths
       THEN /\ cfr' = cfr
            /\ last' = OpRecord("visit_file", <<fpath, loaded>>, <<>>, cfr, "AttributeError")
       ELSE /\ cfr' = visit_file(cfr, fpath, loaded)
            /\ last' = OpRecord("visit_file", <<fpath, loaded>>, <<>>, cfr, "none")
    /\ nops' = nops + 1
    /\ UNCHANGED <<fs_files, fs_dirs, file_cfg, config_paths, cmds, class_flags, class_aliases>>

\* reading the property cfr.config_tuples
ConfigTuples ==
    /\ last' = OpRecord("config_tuples", <<>>, config_tuples(cfr), cfr, "none")
    /\ UNCHANGED <<fs_files, fs_dirs, file_cfg, config_paths, cfr, cmds, class_flags, class_aliases, nops>>

\* cfr.head_folder()
HeadFolder ==
    /\ \E r \in {head_folder(cfr, fs_files, fs_dirs)} :
          last' = OpRecord("head_folder", <<>>, r.ret, cfr, r.exc)
    /\ UNCHANGED <<fs_files, fs_dirs, file_cfg, config_paths, cfr, cmds, class_flags, class_aliases, nops>>

InitRegistry ==
    /\ \E fs \in FileSystems : fs_files = fs.files /\ fs_dirs = fs.dirs
    /\ file_cfg = <<>>
    /\ config_paths \in PathLists
    /\ cfr = NewRegistry
    /\ cmds = <<>>
    /\ class_flags = <<>>
    /\ class_aliases = <<>>
    /\ last = NoOp
    /\ nops = 0

NextRegistry ==
    \/ CollectFpaths
    \/ \E fpath \in VisitPaths, loaded \in BOOLEAN : VisitFile(fpath, loaded)
    \/ ConfigTuples
    \/ HeadFolder

SpecRegistry == InitRegistry /\ [][NextRegistry]_vars

-----------------------------------------------------------------------------
(* _consolidate on arbitrary visit lists.                                  *)

FolderA == <<"a">>
FolderB == <<"b">>
NameX == <<"x">>
NameY == <<"y">>

\* the visit records (folder, filename-or-None) the lists are made of
VisitRecords == {<<b, f>> : b \in {FolderA, FolderB}, f \in {None, Some(NameX), Some(NameY)}}

\* the paths of the loaded records of a visit list, in first-visit order
RECURSIVE LoadedPaths(_)
LoadedPaths(v) ==
    IF v = <<>> THEN <<>>
    ELSE LET rest == LoadedPaths(SubSeq(v, 1, Len(v) - 1))
             r == v[Len(v)]
         IN  IF r[2] # None THEN iset_add(rest, osp_join(r[1], r[2][1])) ELSE rest

\* CfgFilesRegistry._consolidate(cfr._visited_tuples)
Consolidate ==
    /\ last' = OpRecord("_consolidate", cfr.visited_tuples,
                        consolidate(cfr.visited_tuples), cfr, "none")
    /\ UNCHANGED <<fs_files, fs_dirs, file_cfg, config_paths, cfr, cmds,
                   class_flags, class_aliases, nops>>

\* a registry that collected nothing and was then fed visits by hand
InitConsolidate ==
    /\ fs_files = {}
    /\ fs_dirs = {Cwd}
    /\ file_cfg = <<>>
    /\ config_paths = <<>>
    /\ \E v \in SeqsUpTo(VisitRecords, MaxVisited) :
          cfr = [visited_tuples |-> v, has_collected_paths |-> TRUE,
                 collected_paths |-> LoadedPaths(v)]
    /\ cmds = <<>>
    /\ class_flags = <<>>
    /\ class_aliases = <<>>
    /\ last = NoOp
    /\ nops = 0

NextConsolidate == Consolidate

SpecConsolidate == InitConsolidate /\ [][NextConsolidate]_vars

-----------------------------------------------------------------------------
(* Config trees (traitlets Config) and config files.                       *)

\* the dotted keys and the values a config file or the command line may set
Keys == {"Cmd.a", "Cmd.b"}
EmptyCfg == <<>>

\* Config.merge(other): the values of `other` overwrite
cfg_merge(cfg, other) ==
    [k \in DOMAIN cfg \cup DOMAIN other |-> IF k \in DOMAIN other THEN other[k] ELSE cfg[k]]

\* Config.collisions(other): the keys both set, to different values
cfg_collisions(cfg, other) ==
    {k \in DOMAIN cfg \cap DOMAIN other : cfg[k] # other[k]}

\* what a config file holds
FileConfigs ==
    UNION {[D -> {1, 2}] : D \in SUBSET Keys} \ {f \in UNION {[D -> {1, 2}] : D \in SUBSET Keys} :
                                                  "Cmd.b" \in DOMAIN f /\ f["Cmd.b"] = 2}

\* what the command line sets
CliConfigs == {EmptyCfg, [k \in {"Cmd.a"} |-> 3], [k \in {"Cmd.b"} |-> 3]}

\* a file is absent, or loading it gives a config, fails to parse, or finds
\* the file deleted since it was collected
Outcome(kind, cfg) == [kind |-> kind, cfg |-> cfg]
Outcomes ==
    {Outcome("config", c) : c \in FileConfigs}
        \cup {Outcome("absent", EmptyCfg), Outcome("parse_error", EmptyCfg),
              Outcome("vanished", EmptyCfg)}

\* the config files of the command scenarios
CmdFiles == {PathCJson, PathCPy, PathFragJson}

\* the config_paths of the command scenarios
CmdConfigPaths == {<<>>, <<(<<"c">>)>>, <<PathCPy, PathCJson>>}

-----------------------------------------------------------------------------
(* Command classes and instances.                                          *)

\* the command classes; only RootCmd declares sub-commands
CmdClasses == {"RootCmd", "SubCmd"}
subcommands(cls) == IF cls = "RootCmd" THEN {"sub"} ELSE {}

\* a flags or aliases dict: the identity of the dict object and its entries
DictObj(obj, map) == [obj |-> obj, map |-> map]

\* Cmd(parent=parent, raise_config_file_errors=strict) before the `parent`
\* observer runs: node number n of class cls
new_cmd(n, cls, parent, strict) ==
    [cls |-> cls, parent |-> parent, subapp |-> 0,
     flags |-> DictObj(<<"own", n>>, class_flags[cls]),
     aliases |-> DictObj(<<"own", n>>, class_aliases[cls]),
     cfgfiles_registry |-> None,
     cli_config |-> EmptyCfg, config |-> EmptyCfg, extra_args |-> <<>>,
     raise_config_file_errors |-> strict,
     argv |-> None, warnings |-> <<>>]

\* dict(parent) followed by update(own)
dict_update(parent_map, own_map) ==
    [k \in DOMAIN parent_map \cup DOMAIN own_map |->
        IF k \in DOMAIN own_map THEN own_map[k] ELSE parent_map[k]]

\* the merge of _inherit_parent_cmd for one of flags / aliases
inherit_parent_wins(n, own, inherited) ==
    IF inherited.map # <<>>
    THEN IF own.map # <<>>
         THEN DictObj(<<"merged", n>>, dict_update(own.map, inherited.map))
         ELSE inherited
    ELSE own
inherit(n, own, inherited) ==
    IF inherited.map # <<>>
    THEN IF own.map # <<>>
         THEN DictObj(<<"merged", n>>, dict_update(inherited.map, own.map))
         ELSE inherited
    ELSE own

\* an attachment that puts the child's entries into the parent's own dicts
\* and shares them
inherit_parent_cmd_in_place(cs, n) ==
    IF cs[n].parent # 0
    THEN [cs EXCEPT
            ![cs[n].parent].flags.map = dict_update(@, cs[n].flags.map),
            ![cs[n].parent].aliases.map = dict_update(@, cs[n].aliases.map),
            ![n].flags = DictObj(cs[cs[n].parent].flags.obj,
                                 dict_update(cs[cs[n].parent].flags.map, cs[n].flags.map)),
            ![n].aliases = DictObj(cs[cs[n].parent].aliases.obj,
                                   dict_update(cs[cs[n].parent].aliases.map, cs[n].aliases.map))]
    ELSE cs

\* Cmd._inherit_parent_cmd on node n of the nodes cs
inherit_parent_cmd(cs, n) ==
    IF cs[n].parent # 0
    THEN [cs EXCEPT ![n].flags = inherit(n, @, cs[cs[n].parent].flags),
                    ![n].aliases = inherit(n, @, cs[cs[n].parent].aliases)]
    ELSE cs

\* constructing a command: the instance is appended and the observer runs
construct(cs, cls, parent, strict) ==
    inherit_parent_cmd(Append(cs, new_cmd(Len(cs) + 1, cls, parent, strict)), Len(cs) + 1)

\* Cmd._is_dispatching
is_dispatching_never(node) == FALSE
is_dispatching(node) == node.subapp # 0

\* Cmd.loaded_config_files
loaded_config_files(node) ==
    IF node.cfgfiles_registry # None
    THEN config_tuples(node.cfgfiles_registry[1]) ELSE <<>>

\* a load that swallows a parse failure also in strict mode
read_config_never_raises(node, cfpath) ==
    IF file_cfg[cfpath].kind = "config"
    THEN [config |-> Some(file_cfg[cfpath].cfg), exc |-> "none"]
    ELSE [config |-> None, exc |-> "none"]

\* Cmd._read_config_from_json_or_py: the config or None, or the exception
read_config_from_json_or_py(node, cfpath) ==
    LET out == file_cfg[cfpath]
    IN  IF out.kind = "config" THEN [config |-> Some(out.cfg), exc |-> "none"]
        ELSE IF out.kind = "parse_error" /\ node.raise_config_file_errors
        THEN [config |-> None, exc |-> "ConfigError"]
        ELSE [config |-> None, exc |-> "none"]

\* the order in which read_config_files loads the collected paths
read_order_forward(collected) == collected
read_order(collected) == Reverse(collected)

\* collision warnings against the most recently loaded config only
collision_warnings_last_only(loaded, cfpath, config) ==
    IF loaded # <<>> /\ cfg_collisions(loaded[Len(loaded)][2], config) # {}
    THEN <<[first |-> loaded[Len(loaded)][1], second |-> cfpath, higher |-> cfpath,
            keys |-> cfg_collisions(loaded[Len(loaded)][2], config)]>>
    ELSE <<>>

\* the collision warnings for one new config against the earlier ones
collision_warnings(loaded, cfpath, config) ==
    LET hit == SelectSeq(loaded, LAMBDA e : cfg_collisions(e[2], config) # {})
    IN  [i \in 1..Len(hit) |->
            [first |-> hit[i][1], second |-> cfpath, higher |-> cfpath,
             keys |-> cfg_collisions(hit[i][2], config)]]

\* the loop of read_config_files over the paths still to load
RECURSIVE read_loop(_, _, _)
read_loop(node, paths, acc) ==
    IF paths = <<>> \/ acc.exc # "none" THEN acc
    ELSE LET r == read_config_from_json_or_py(node, paths[1])
         IN  IF r.exc # "none" THEN [acc EXCEPT !.exc = r.exc]
             ELSE IF r.config # None /\ r.config[1] # EmptyCfg
             THEN read_loop(node, Tail(paths),
                     [acc EXCEPT
                        !.warnings = @ \o collision_warnings(acc.loaded, paths[1], r.config[1]),
                        !.loaded = Append(@, <<paths[1], r.config[1]>>),
                        !.new_config = cfg_merge(@, r.config[1])])
             ELSE read_loop(node, Tail(paths), acc)

\* Cmd._collect_static_fpaths: the registry it makes for the node (the paths
\* it returns are the registry's collected_paths)
collect_static_fpaths(node) == collect_fpaths(NewRegistry, fs_files, fs_dirs, config_paths)

\* the rest of read_config_files, given the registry of _collect_static_fpaths
read_collected(node, reg) ==
    [read_loop(node, read_order(reg.collected_paths),
               [new_config |-> EmptyCfg, loaded |-> <<>>, warnings |-> <<>>,
                exc |-> "none", registry |-> reg])
        EXCEPT !.loaded = <<>>]

\* Cmd.read_config_files: the registry it makes, the merged config, the
\* warnings logged, the exception raised
read_config_files(node) == read_collected(node, collect_static_fpaths(node))

\* Configurable.update_config: the new values are merged into the node's config
update_config(node, cfg) == [node EXCEPT !.config = cfg_merge(@, cfg)]

\* the command line: whether its first token names the sub-command `sub`,
\* the positional tokens that follow, and the option values it sets
ArgvExtra(sub, extra, cli) == [sub |-> sub, extra |-> extra, cli |-> cli]
Argv(sub, cli) == ArgvExtra(sub, <<>>, cli)
Argvs == {Argv(sub, cli) : sub \in BOOLEAN, cli \in CliConfigs}

\* the end of initialize, given what read_config_files gave: unless it
\* raised, the command line is merged on top and the result applied
apply_static_config(cs, n, r) ==
    IF r.exc # "none"
    THEN [cmds |-> [cs EXCEPT ![n].cfgfiles_registry = Some(r.registry),
                              ![n].warnings = @ \o r.warnings],
          exc |-> r.exc]
    ELSE [cmds |-> [cs EXCEPT ![n] = update_config(
                        [@ EXCEPT !.cfgfiles_registry = Some(r.registry),
                                  !.warnings = @ \o r.warnings],
                        cfg_merge(r.new_config, cs[n].cli_config))],
          exc |-> "none"]

\* the part of initialize after parse_command_line on a node that is not
\* dispatching: read the files, merge the command line on top, apply
initialize_leaf(cs, n) == apply_static_config(cs, n, read_config_files(cs[n]))

\* parse_command_line on a node without a matching sub-command token: the
\* options become cli_config and are applied, the positionals extra_args
parse_options(cs, n, argv) ==
    [cs EXCEPT ![n] = update_config(
        [@ EXCEPT !.cli_config = argv.cli, !.argv = Some(argv),
                  !.extra_args = (IF argv.sub THEN <<"sub">> ELSE <<>>) \o argv.extra],
        argv.cli)]

\* the nodes after the child of a dispatch is instantiated with parent=self
\* and attached as subapp of node n
attach_subcommand(cs, n, argv) ==
    [construct([cs EXCEPT ![n].argv = Some(argv)], "SubCmd", n,
               cs[n].raise_config_file_errors)
        EXCEPT ![n].subapp = Len(cs) + 1]

RECURSIVE initialize(_, _, _)

\* parse_command_line(argv) on node n: when the first token names a declared
\* sub-command the child is attached and initialized with the rest of the
\* command line, otherwise the options are parsed
parse_command_line(cs, n, argv) ==
    IF argv.sub /\ "sub" \in subcommands(cs[n].cls)
    THEN initialize(attach_subcommand(cs, n, argv), Len(cs) + 1,
                    ArgvExtra(FALSE, argv.extra, argv.cli))
    ELSE [cmds |-> parse_options(cs, n, argv), exc |-> "none"]

\* the rest of initialize, given what parse_command_line gave
initialize_parsed(parsed, n) ==
    IF parsed.exc # "none" \/ is_dispatching(parsed.cmds[n]) THEN parsed
    ELSE initialize_leaf(parsed.cmds, n)

\* Cmd.initialize(argv) on node n
initialize(cs, n, argv) == initialize_parsed(parse_command_line(cs, n, argv), n)

\* one instantiation of chain_cmds: the first command is an orphan, a later
\* one gets the last instance made as parent and becomes its subapp
link_subapp(made, app) ==
    IF app = 0 THEN made ELSE [made EXCEPT ![app].subapp = Len(made)]
chain_link(cs, app, app_cl) == link_subapp(construct(cs, app_cl, app, FALSE), app)

\* the elements a list handed to chain_cmds may hold besides command classes:
\* SpecClass is a class with traits that is no command (as cmdlets.Spec),
\* NotAClass an object that is no class with traits
SpecClass == "Spec"
NotAClass == "not-a-class"

\* isinstance(app_cl, type(trc.Application)): the test is on the metaclass,
\* which every class with traits shares
is_application_class(app_cl) == app_cl # NotAClass

\* whether instances of the class are commands
is_command_class(app_cl) == app_cl \notin {SpecClass, NotAClass}

\* instantiating a class with traits that is no command: as the first element
\* the instance has no initialize(); as a later one it is refused by the
\* `subapp` trait of the command before it
link_non_command(cs, app) ==
    [cmds |-> cs, exc |-> IF app = 0 THEN "AttributeError" ELSE "TraitError"]

RECURSIVE chain_loop(_, _, _, _)

\* the loop goes on with the next class unless initialize raised
chain_next(r, app, app_classes, argv) ==
    IF r.exc # "none" THEN r ELSE chain_loop(r.cmds, app, app_classes, argv)

\* the loop of chain_cmds over the classes still to instantiate; app is the
\* last instance made (0 before the first)
chain_loop(cs, app, app_classes, argv) ==
    IF app_classes = <<>> THEN [cmds |-> cs, exc |-> "none"]
    ELSE IF ~is_application_class(app_classes[1]) THEN [cmds |-> cs, exc |-> "ValueError"]
    ELSE IF ~is_command_class(app_classes[1]) THEN link_non_command(cs, app)
    ELSE chain_next(initialize(chain_link(cs, app, app_classes[1]), Len(cs) + 1, argv),
                    Len(cs) + 1, Tail(app_classes), argv)

\* chain_cmds(app_classes, argv)
chain_cmds(app_classes, argv) ==
    IF app_classes = <<>> THEN [cmds |-> <<>>, exc |-> "ValueError"]
    ELSE chain_loop(<<>>, 0, app_classes, argv)

-----------------------------------------------------------------------------
(* Operations on commands.                                                 *)

\* cmd = RootCmd.make_cmd(argv, raise_config_file_errors=strict)
MakeCmd(argv, strict) ==
    /\ cmds = <<>>
    /\ last.op = "none"
    /\ \E r \in {initialize(construct(<<>>, "RootCmd", 0, strict), 1, argv)} :
          /\ cmds' = r.cmds
          /\ last' = OpRecord("make_cmd", argv, <<>>, cfr, r.exc)
    /\ nops' = nops + 1
    /\ UNCHANGED <<fs_files, fs_dirs, file_cfg, config_paths, cfr, class_flags, class_aliases>>

\* root = chain_cmds(app_classes, argv); argv holds no sub-command
ChainCmds(app_classes, cli) ==
    /\ cmds = <<>>
    /\ last.op = "none"
    /\ \E r \in {chain_cmds(app_classes, Argv(FALSE, cli))} :
          /\ cmds' = r.cmds
          /\ last' = OpRecord("chain_cmds", app_classes, <<>>, cfr, r.exc)
    /\ nops' = nops + 1
    /\ UNCHANGED <<fs_files, fs_dirs, file_cfg, config_paths, cfr, class_flags, class_aliases>>

\* longest list of classes handed to chain_cmds
MaxChain == 2
ClassLists == SeqsUpTo(CmdClasses, MaxChain)

\* the class-level flags of the command scenarios
NoDict == <<>>
CmdClassFlags == [cls \in CmdClasses |-> NoDict]

\* the file system of a choice of file outcomes
FilesOf(fc) == {f \in DOMAIN fc : fc[f].kind # "absent"}
DirsOf(fc) == {Cwd} \cup {osp_split(f)[1] : f \in FilesOf(fc)}

Init ==
    /\ file_cfg \in [CmdFiles -> Outcomes]
    /\ fs_files = FilesOf(file_cfg)
    /\ fs_dirs = DirsOf(file_cfg)
    /\ config_paths \in CmdConfigPaths
    /\ cfr = NewRegistry
    /\ cmds = <<>>
    /\ class_flags = CmdClassFlags
    /\ class_aliases = CmdClassFlags
    /\ last = NoOp
    /\ nops = 0

Next ==
    \/ \E argv \in Argvs, strict \in BOOLEAN : MakeCmd(argv, strict)
    \/ \E app_classes \in ClassLists, cli \in CliConfigs : ChainCmds(app_classes, cli)

Spec == Init /\ [][Next]_vars

-----------------------------------------------------------------------------
(* Flag and alias inheritance over varied class-level dicts.               *)

\* a flag key is a token or a group of tokens, here the sequence of its tokens
KeyForceGroup == <<"f", "force">>
KeyForce == <<"force">>
KeyDryRun == <<"n", "dry-run">>
KeyLogLevel == <<"log-level">>
KeyMessage == <<"m", "message">>

\* the dicts over some keys whose entries all hold the definition `def`
DictsOver(keys, def) == {[k \in D |-> def] : D \in SUBSET keys}

\* the class-level flags and aliases the classes may declare; every entry is
\* labelled with the class that defines it
ClassFlagChoices ==
    {[cls \in CmdClasses |-> IF cls = "RootCmd" THEN r ELSE c] :
        r \in DictsOver({KeyForceGroup, KeyDryRun}, "RootCmd"),
        c \in DictsOver({KeyForceGroup, KeyForce, KeyDryRun}, "SubCmd")}
ClassAliasChoices ==
    {[cls \in CmdClasses |-> IF cls = "RootCmd" THEN r ELSE c] :
        r \in DictsOver({KeyLogLevel, KeyMessage}, "RootCmd"),
        c \in DictsOver({KeyLogLevel, KeyMessage}, "SubCmd")}

InitInherit ==
    /\ file_cfg = [f \in CmdFiles |-> Outcome("absent", EmptyCfg)]
    /\ fs_files = {}
    /\ fs_dirs = {Cwd}
    /\ config_paths = <<>>
    /\ cfr = NewRegistry
    /\ cmds = <<>>
    /\ class_flags \in ClassFlagChoices
    /\ class_aliases \in ClassAliasChoices
    /\ last = NoOp
    /\ nops = 0

SpecInherit == InitInherit /\ [][Next]_vars

-----------------------------------------------------------------------------
(* The PathList trait.                                                     *)

\* os.pathsep
PathSep == ":"

\* the position of the first occurrence of c in s, 0 if none
RECURSIVE Find(_, _)
Find(s, c) ==
    IF s = <<>> THEN 0
    ELSE IF s[1] = c THEN 1
    ELSE IF Find(Tail(s), c) = 0 THEN 0 ELSE Find(Tail(s), c) + 1

\* str.split(sep): the fragments between the separators, empty ones kept
RECURSIVE str_split(_, _)
str_split(s, sep) ==
    IF Find(s, sep) = 0 THEN <<s>>
    ELSE <<SubSeq(s, 1, Find(s, sep) - 1)>>
            \o str_split(SubSeq(s, Find(s, sep) + 1, Len(s)), sep)

\* sep.join(parts)
RECURSIVE str_join(_, _)
str_join(parts, sep) ==
    IF parts = <<>> THEN <<>>
    ELSE IF Len(parts) = 1 THEN parts[1]
    ELSE parts[1] \o <<sep>> \o str_join(Tail(parts), sep)

\* how many slashes a text starts with
RECURSIVE LeadingSlashes(_)
LeadingSlashes(s) ==
    IF s # <<>> /\ s[1] = "/" THEN 1 + LeadingSlashes(Tail(s)) ELSE 0

\* str(pathlib.Path(text)): repeated and trailing slashes and `.` components
\* are dropped, exactly two leading slashes are kept, the empty path is `.`
pathlib_str(text) ==
    LET root  == IF LeadingSlashes(text) = 0 THEN <<>>
                 ELSE IF LeadingSlashes(text) = 2 THEN <<"/", "/">> ELSE <<"/">>
        parts == SelectSeq(str_split(text, "/"), LAMBDA c : c # <<>> /\ c # <<".">>)
    IN  IF root = <<>> /\ parts = <<>> THEN <<".">> ELSE root \o str_join(parts, "/")

\* an element assigned to the trait: a str or a path object made of a text
Elem(kind, text) == [kind |-> kind, text |-> text]

\* the string form the element trait gives an element
str_form(e) == IF e.kind = "path" THEN pathlib_str(e.text) ELSE e.text

\* List.validate with trait=Unicode(): every element in its string form
list_validate(value) == [i \in 1..Len(value) |-> str_form(value[i])]

\* the comprehension of PathList.validate over the validated elements
RECURSIVE split_all(_)
split_all(value) ==
    IF value = <<>> THEN <<>>
    ELSE str_split(value[1], PathSep) \o split_all(Tail(value))

\* a validation that also drops the empty fragments
PathList_validate_no_empty(value) ==
    SelectSeq(split_all(list_validate(value)), LAMBDA f : f # <<>>)

\* PathList.validate
PathList_validate(value) == split_all(list_validate(value))

\* longest text of an element and longest list assigned to the trait
MaxText == 2
MaxElems == 2

\* the characters of the texts: a name character, os.pathsep and the slash
TextChars == {"c", PathSep, "/"}
Texts == SeqsUpTo(TextChars, MaxText)

\* the lists assigned: all elements strings, or all path objects
RawLists ==
    {[i \in 1..Len(ts) |-> Elem(kind, ts[i])] :
        ts \in SeqsUpTo(Texts, MaxElems), kind \in {"str", "path"}}

\* c.p = value: the trait validates the value and stores the result
AssignPathList ==
    /\ last.op = "none"
    /\ \E r \in {PathList_validate(config_paths)} :
          /\ config_paths' = r
          /\ last' = OpRecord("PathList", config_paths, r, cfr, "none")
    /\ nops' = nops + 1
    /\ UNCHANGED <<fs_files, fs_dirs, file_cfg, cfr, cmds, class_flags, class_aliases>>

InitPathList ==
    /\ fs_files = {}
    /\ fs_dirs = {Cwd}
    /\ file_cfg = <<>>
    /\ config_paths \in RawLists
    /\ cfr = NewRegistry
    /\ cmds = <<>>
    /\ class_flags = <<>>
    /\ class_aliases = <<>>
    /\ last = NoOp
    /\ nops = 0

NextPathList == AssignPathList

SpecPathList == InitPathList /\ [][NextPathList]_vars

-----------------------------------------------------------------------------
(* Starting a command chain.                                               *)

\* the classes of the start scenarios: LeafCmd is a leaf command whose class
\* overrides run(); RootCmd and SubCmd keep the default run()
StartClasses == CmdClasses \cup {"LeafCmd"}
overrides_run(cls) == cls = "LeafCmd"

\* the one-line help a class gives for a sub-command it declares
subcommand_help(cls, k) == <<"help of", k>>

\* Cmd.my_cmd_chain of a node without child: the node and its ancestors
RECURSIVE my_cmd_chain(_, _)
my_cmd_chain(cs, n) ==
    IF n = 0 THEN <<>> ELSE <<n>> \o my_cmd_chain(cs, cs[n].parent)

\* cmd_line_chain: the names of the chain, root first (a class stands for
\* the name derived from it)
cmd_line_chain(cs, n) ==
    [i \in 1..Len(my_cmd_chain(cs, n)) |-> cs[Reverse(my_cmd_chain(cs, n))[i]].cls]

\* what a run() gives: the calls made, the exception raised, its message and
\* the value returned
RunResult(calls, exc, msg, result) ==
    [calls |-> calls, exc |-> exc, msg |-> msg, result |-> result]

\* a default run that does not check that the node declares sub-commands
run_default_unchecked(cs, n, args) ==
    RunResult(<<(<<n, args>>)>>, "CmdException",
              Some([cmd_chain |-> cmd_line_chain(cs, n),
                    subcmd_msg |-> <<"sub-command is missing">>,
                    subcmds |-> {}]),
              None)

\* Cmd.run(*args), the default
run_default(cs, n, args) ==
    IF subcommands(cs[n].cls) = {}
    THEN RunResult(<<(<<n, args>>)>>, "AssertionError", None, None)
    ELSE RunResult(<<(<<n, args>>)>>, "CmdException",
                   Some([cmd_chain |-> cmd_line_chain(cs, n),
                         subcmd_msg |-> IF args # <<>>
                                        THEN <<"unknown sub-command", args[1]>>
                                        ELSE <<"sub-command is missing">>,
                         subcmds |-> {<<k, subcommand_help(cs[n].cls, k)>> :
                                         k \in subcommands(cs[n].cls)}]),
                   None)

\* run(*args) of node n: the class's own run() where it overrides it
run(cs, n, args) ==
    IF overrides_run(cs[n].cls)
    THEN RunResult(<<(<<n, args>>)>>, "none", None, Some(<<"ran", n, args>>))
    ELSE run_default(cs, n, args)

RECURSIVE start(_, _)

\* a start that runs the node it is called on
start_runs_self(cs, n) == run(cs, n, cs[n].extra_args)

\* Cmd.start on node n
start(cs, n) ==
    IF cs[n].subapp = 0 THEN run(cs, n, cs[n].extra_args) ELSE start(cs, cs[n].subapp)

\* the positional tokens of the start scenarios
ExtraArgs == {<<>>, <<"x">>, <<"x", "y">>}
StartArgvs == {ArgvExtra(sub, extra, EmptyCfg) : sub \in BOOLEAN, extra \in ExtraArgs}

\* root = chain_cmds(app_classes, argv) with positional tokens in argv
ChainCmdsArgv(app_classes, argv) ==
    /\ cmds = <<>>
    /\ last.op = "none"
    /\ \E r \in {chain_cmds(app_classes, argv)} :
          /\ cmds' = r.cmds
          /\ last' = OpRecord("chain_cmds", app_classes, <<>>, cfr, r.exc)
    /\ nops' = nops + 1
    /\ UNCHANGED <<fs_files, fs_dirs, file_cfg, config_paths, cfr, class_flags, class_aliases>>

\* root.start() on a chain that was initialized without error
Start ==
    /\ last.op \in {"make_cmd", "chain_cmds"}
    /\ last.exc = "none"
    /\ cmds # <<>>
    /\ \E r \in {start(cmds, 1)} :
          last' = OpRecord("start", <<>>, r, cfr, r.exc)
    /\ nops' = nops + 1
    /\ UNCHANGED <<fs_files, fs_dirs, file_cfg, config_paths, cfr, cmds, class_flags, class_aliases>>

\* the files of the start scenarios: c.json may hold a config
StartFileConfigs ==
    {[f \in CmdFiles |-> IF f = PathCJson THEN o ELSE Outcome("absent", EmptyCfg)] :
        o \in {Outcome("absent", EmptyCfg), Outcome("config", [k \in {"Cmd.a"} |-> 1])}}

InitStart ==
    /\ file_cfg \in StartFileConfigs
    /\ fs_files = FilesOf(file_cfg)
    /\ fs_dirs = DirsOf(file_cfg)
    /\ config_paths \in {<<>>, <<(<<"c">>)>>}
    /\ cfr = NewRegistry
    /\ cmds = <<>>
    /\ class_flags = [cls \in StartClasses |-> NoDict]
    /\ class_aliases = [cls \in StartClasses |-> NoDict]
    /\ last = NoOp
    /\ nops = 0

NextStart ==
    \/ \E argv \in StartArgvs : MakeCmd(argv, FALSE)
    \/ \E app_classes \in SeqsUpTo(StartClasses, MaxChain), extra \in ExtraArgs :
          ChainCmdsArgv(app_classes, ArgvExtra(FALSE, extra, EmptyCfg))
    \/ Start

SpecStart == InitStart /\ [][NextStart]_vars

-----------------------------------------------------------------------------
(* Command names.                                                          *)

\* the characters of the type names: upper-case letters, lower-case letters,
\* a digit and the underscore
UpperChars == {"B", "C", "M"}
LowerChars == {"o", "m", "d"}
DigitChars == {"1"}
NameChars == UpperChars \cup LowerChars \cup DigitChars \cup {"_"}

\* str.lower on one character and on a string
lower_char(c) ==
    CASE c = "B" -> "b" [] c = "C" -> "c" [] c = "M" -> "m"
      [] c = "D" -> "d" [] c = "F" -> "f" [] c = "L" -> "l"
      [] c = "R" -> "r" [] c = "S" -> "s"
      [] c = "A" -> "a" [] c = "G" -> "g" [] c = "P" -> "p" [] c = "V" -> "v"
      [] OTHER -> c
str_lower(s) == [i \in 1..Len(s) |-> lower_char(s[i])]

\* str.replace('_', '-')
replace_underscores(s) == [i \in 1..Len(s) |-> IF s[i] = "_" THEN "-" ELSE s[i]]

\* the character classes [A-Z] and [a-z0-9] of the regular expression
re_upper(c) == lower_char(c) # c
re_lower_or_digit(c) ==
    c \in DigitChars \cup {"a", "b", "c", "d", "e", "f", "l", "m", "o", "r", "s", "t", "u"}

\* the end of the run of upper-case letters that starts at position i
RECURSIVE upper_run_end(_, _)
upper_run_end(s, i) ==
    IF i < Len(s) /\ re_upper(s[i + 1]) THEN upper_run_end(s, i + 1) ELSE i

\* re.sub('(?<=[a-z0-9])([A-Z]+)', r'_\1', s) from position i on
RECURSIVE re_sub_from(_, _)
re_sub_from(s, i) ==
    IF i > Len(s) THEN <<>>
    ELSE IF re_upper(s[i]) /\ i > 1 /\ re_lower_or_digit(s[i - 1])
    THEN <<"_">> \o SubSeq(s, i, upper_run_end(s, i)) \o re_sub_from(s, upper_run_end(s, i) + 1)
    ELSE <<s[i]>> \o re_sub_from(s, i + 1)

\* the `cmd` suffix
SuffixCmd == <<"c", "m", "d">>

\* a suffix test that compares the letters as they are written
has_cmd_suffix_exact(name) == EndsWith(name, <<"C", "m", "d">>) /\ Len(name) > 3

\* whether class2cmd_name drops the last three characters
has_cmd_suffix(name) == EndsWith(str_lower(name), SuffixCmd) /\ Len(name) > 3

\* the name without the suffix
strip_cmd_suffix(name) ==
    IF has_cmd_suffix(name) THEN SubSeq(name, 1, Len(name) - 3) ELSE name

\* class2cmd_name(cls), on the name of the class
class2cmd_name(name) ==
    replace_underscores(str_lower(re_sub_from(strip_cmd_suffix(name), 1)))

\* longest type name
MaxName == 5

\* the type names: identifiers, which do not start with a digit
TypeNames == {n \in SeqsUpTo(NameChars, MaxName) : n # <<>> /\ n[1] \notin DigitChars}

\* the default of the `name` trait of a class called `name`
Class2CmdName(name) ==
    /\ last' = OpRecord("class2cmd_name", name, class2cmd_name(name), cfr, "none")
    /\ UNCHANGED <<fs_files, fs_dirs, file_cfg, config_paths, cfr, cmds, class_flags,
                   class_aliases, nops>>

InitName ==
    /\ fs_files = {}
    /\ fs_dirs = {Cwd}
    /\ file_cfg = <<>>
    /\ config_paths = <<>>
    /\ cfr = NewRegistry
    /\ cmds = <<>>
    /\ class_flags = <<>>
    /\ class_aliases = <<>>
    /\ last = NoOp
    /\ nops = 0

\* one name is computed in a behaviour
NextName ==
    /\ last.op = "none"
    /\ \E name \in TypeNames : Class2CmdName(name)

SpecName == InitName /\ [][NextName]_vars

-----------------------------------------------------------------------------
(* Writing a default config file.                                          *)

\* the path the operating system resolves a path to
os_resolve(p) == IF StartsWith(p, <<"/">>) THEN p ELSE osp_join(Cwd, p)

\* the __name__ of a command class
TypeNameOf(cls) ==
    CASE cls = "RootCmd" -> <<"R", "o", "o", "t", "C", "m", "d">>
      [] cls = "SubCmd" -> <<"S", "u", "b", "C", "m", "d">>
      [] OTHER -> <<"L", "e", "a", "f", "C", "m", "d">>

\* Cmd.root_app
RECURSIVE root_app(_, _)
root_app(cs, n) == IF cs[n].parent = 0 THEN n ELSE root_app(cs, cs[n].parent)

\* Cmd._config_basename: '.' + root_app().name
config_basename(cs, n) == <<".">> \o class2cmd_name(TypeNameOf(cs[root_app(cs, n)].cls))

\* the content generate_config_file() gives
DefaultContent == Outcome("default", EmptyCfg)

\* the file contents after `path` got `content`
put_file(cfg, path, content) ==
    [p \in DOMAIN cfg \cup {path} |-> IF p = path THEN content ELSE cfg[p]]

\* shutil.move(src, dst) of a file: dst, replaced if there, gets the content
move_file(cfg, src, dst) ==
    put_file(put_file(cfg, dst, cfg[src]), src, Outcome("absent", EmptyCfg))

\* a directory and the directories above it
RECURSIVE dir_and_parents(_)
dir_and_parents(d) ==
    IF d = <<>> \/ osp_split(d)[1] = d THEN {}
    ELSE {d} \cup dir_and_parents(osp_split(d)[1])

\* fileutils.ensure_dir_exists(path): the directories afterwards
ensure_dir_exists(dirs, d) == dirs \cup dir_and_parents(os_resolve(d))

\* the first lines of write_default_config: the config file to write,
\* before the extension is forced, or None where the AssertionError is raised
resolve_config_file(cs, n, dirs, paths, config_file) ==
    IF config_file # None /\ config_file[1] # <<>>
    THEN Some(IF isdir(dirs, convpath(config_file[1]))
              THEN osp_join(convpath(config_file[1]), config_basename(cs, n))
              ELSE convpath(config_file[1]))
    ELSE IF paths # <<>> THEN Some(paths[1])
    ELSE None

\* the name the existing file is moved to
backup_name(config_file, now) ==
    osp_splitext_root(config_file) \o <<"-">> \o now \o ExtPy

\* what a call gives: the file contents and directories afterwards, the
\* exception raised, the file written and the backup made
WriteResult(cfg, dirs, exc, target, backup) ==
    [cfg |-> cfg, dirs |-> dirs, exc |-> exc, target |-> target, backup |-> backup]

\* the contents once any existing file is moved aside
moved_aside(cfg, config_file, is_overwrite, now) ==
    IF is_overwrite
    THEN move_file(cfg, os_resolve(config_file), os_resolve(backup_name(config_file, now)))
    ELSE cfg

\* a check that lets an existing file be overwritten without force
refuses_overwrite_never(is_overwrite, force) == FALSE

\* whether write_default_config refuses to write
refuses_overwrite(is_overwrite, force) == is_overwrite /\ ~force

\* a write that keeps no backup of the existing file
write_config_file_no_backup(cfg, dirs, config_file, force, now) ==
    IF refuses_overwrite(isfile(FilesOf(cfg), os_resolve(config_file)), force)
    THEN WriteResult(cfg, dirs, "CmdException", Some(config_file), None)
    ELSE WriteResult(put_file(cfg, os_resolve(config_file), DefaultContent),
                     ensure_dir_exists(dirs, osp_split(config_file)[1]),
                     "none", Some(config_file), None)

\* write_default_config from the overwrite check on; config_file has its
\* extension
write_config_file(cfg, dirs, config_file, force, now) ==
    IF refuses_overwrite(isfile(FilesOf(cfg), os_resolve(config_file)), force)
    THEN WriteResult(cfg, dirs, "CmdException", Some(config_file), None)
    ELSE WriteResult(
            put_file(moved_aside(cfg, config_file,
                                 isfile(FilesOf(cfg), os_resolve(config_file)), now),
                     os_resolve(config_file), DefaultContent),
            ensure_dir_exists(dirs, osp_split(config_file)[1]),
            "none", Some(config_file),
            IF isfile(FilesOf(cfg), os_resolve(config_file))
            THEN Some(backup_name(config_file, now)) ELSE None)

\* write_default_config, given what the first lines resolved
write_resolved(cfg, dirs, resolved, force, now) ==
    IF resolved = None
    THEN WriteResult(cfg, dirs, "AssertionError", None, None)
    ELSE write_config_file(cfg, dirs, ensure_file_ext(resolved[1], ExtPy), force, now)

\* Cmd.write_default_config(config_file, force) on node n, at time `now`
write_default_config(cs, n, cfg, dirs, paths, config_file, force, now) ==
    write_resolved(cfg, dirs, resolve_config_file(cs, n, dirs, paths, config_file),
                   force, now)

\* the exceptions that derive from BaseException without deriving from
\* Exception
BaseOnlyKinds == {"SystemExit", "KeyboardInterrupt"}

\* a main() that takes only CmdException for a user-facing error
main_branch_cmd_exception_only(exc) ==
    IF exc = "none" THEN "returns"
    ELSE IF exc = "CmdException" THEN "user_facing"
    ELSE IF exc \in BaseOnlyKinds THEN "escapes"
    ELSE "stacktrace"

\* the branch of main() an exception of the command ends in: the two except
\* clauses take what derives from Exception, anything else leaves main()
main_branch(exc) ==
    IF exc = "none" THEN "returns"
    ELSE IF exc \in {"CmdException", "TraitError"} THEN "user_facing"
    ELSE IF exc \in BaseOnlyKinds THEN "escapes"
    ELSE "stacktrace"

\* how many write_default_config calls one behaviour makes
MaxWrites == 2

\* the config_file arguments: none, a relative name, a file and a folder
WriteTargets == {None, Some(<<"c">>), Some(PathCPy), Some(DirCD)}

\* the times of the calls, as datetime.now().strftime gives them
Timestamps == {<<"1">>, <<"2">>}

\* cmds[1].write_default_config(config_file, force)
WriteDefaultConfig(config_file, force, now) ==
    /\ cmds # <<>>
    /\ last.exc = "none" \/ last.op = "write_default_config"
    /\ nops <= MaxWrites
    /\ \E r \in {write_default_config(cmds, 1, file_cfg, fs_dirs, config_paths,
                                      config_file, force, now)} :
          /\ file_cfg' = r.cfg
          /\ fs_files' = FilesOf(r.cfg)
          /\ fs_dirs' = r.dirs
          /\ last' = OpRecord("write_default_config",
                              [config_file |-> config_file, force |-> force, now |-> now],
                              [target |-> r.target, backup |-> r.backup],
                              [cfg |-> file_cfg, files |-> fs_files, dirs |-> fs_dirs],
                              r.exc)
    /\ nops' = nops + 1
    /\ UNCHANGED <<config_paths, cfr, cmds, class_flags, class_aliases>>

\* the files of the write scenarios: c.py and a fragment may exist
WriteFileConfigs ==
    {[f \in CmdFiles |-> IF f = PathCPy THEN o1 ELSE IF f = PathFragJson THEN o2
                         ELSE Outcome("absent", EmptyCfg)] :
        o1 \in {Outcome("absent", EmptyCfg), Outcome("config", [k \in {"Cmd.a"} |-> 1])},
        o2 \in {Outcome("absent", EmptyCfg), Outcome("config", [k \in {"Cmd.a"} |-> 2])}}

InitWrite ==
    /\ file_cfg \in WriteFileConfigs
    /\ fs_files = FilesOf(file_cfg)
    /\ fs_dirs = DirsOf(file_cfg)
    /\ config_paths \in {<<>>, <<(<<"c">>)>>, <<PathCJson>>}
    /\ cfr = NewRegistry
    /\ cmds = <<>>
    /\ class_flags = CmdClassFlags
    /\ class_aliases = CmdClassFlags
    /\ last = NoOp
    /\ nops = 0

NextWrite ==
    \/ MakeCmd(Argv(FALSE, EmptyCfg), FALSE)
    \/ \E config_file \in WriteTargets, force \in BOOLEAN, now \in Timestamps :
          WriteDefaultConfig(config_file, force, now)

SpecWrite == InitWrite /\ [][NextWrite]_vars

-----------------------------------------------------------------------------
(* Claims about commands.                                                  *)

\* whether loading file f gives a config
Loads(f) == file_cfg[f].kind = "config"

\* the collected files of a node's pass that load and set key k, in the
\* order they were collected
SettersOf(node, k) ==
    SelectSeq(node.cfgfiles_registry[1].collected_paths,
              LAMBDA f : Loads(f) /\ k \in DOMAIN file_cfg[f].cfg)

\* the value C1 requires for key k on a node that read its config files
C1_KeyResolved(node, k) ==
    IF k \in DOMAIN node.cli_config THEN
        k \in DOMAIN node.config /\ node.config[k] = node.cli_config[k]
    ELSE IF SettersOf(node, k) # <<>> THEN
        k \in DOMAIN node.config /\ node.config[k] = file_cfg[SettersOf(node, k)[1]].cfg[k]
    ELSE k \notin DOMAIN node.config

\* C1: after an initialize that raised nothing, on every node that read its
\* config files each key holds the command line's value if the command line
\* sets it, else the value of the first-collected loaded file that sets it,
\* else nothing; a loaded file at the first entry of config_paths wins over
\* every other file.
C1_MergePriority ==
    (last.op \in {"make_cmd", "chain_cmds"} /\ last.exc = "none") =>
        \A n \in 1..Len(cmds) :
            cmds[n].cfgfiles_registry # None =>
                \A k \in Keys :
                    /\ C1_KeyResolved(cmds[n], k)
                    /\ (/\ config_paths # <<>>
                        /\ config_paths[1] = PathCPy
                        /\ Loads(PathCPy)
                        /\ k \in DOMAIN file_cfg[PathCPy].cfg
                        /\ k \notin DOMAIN cmds[n].cli_config)
                            => cmds[n].config[k] = file_cfg[PathCPy].cfg[k]

C1_Witness ==
    /\ last.op = "make_cmd"
    /\ last.exc = "none"
    /\ config_paths = <<(<<"c">>)>>
    /\ Len(cmds) = 1
    /\ file_cfg[PathCJson] = Outcome("config", [k \in {"Cmd.a"} |-> 1])
    /\ file_cfg[PathCPy] = Outcome("config", [k \in Keys |-> IF k = "Cmd.a" THEN 2 ELSE 1])
    /\ file_cfg[PathFragJson] = Outcome("config", [k \in {"Cmd.a"} |-> 2])
    /\ cmds[1].cli_config = [k \in {"Cmd.b"} |-> 3]
    /\ cmds[1].config = [k \in Keys |-> IF k = "Cmd.a" THEN 1 ELSE 3]

C3_OnlyTerminalReads ==
    (last.op = "chain_cmds" /\ last.exc = "none") =>
        \A n \in 1..Len(cmds) :
            cmds[n].subapp # 0 => cmds[n].cfgfiles_registry = None

\* what C4 requires of the dict `res` a node has after its parent, holding
\* `par`, was assigned, the node's own dict before being `own`
C4_Merged(own, par, res) ==
    IF par # <<>>
    THEN /\ DOMAIN res = DOMAIN par \cup DOMAIN own
         /\ \A k \in DOMAIN own : res[k] = own[k]
    ELSE res = own

\* C4: for flags and for aliases, a node with a parent holds every key of the
\* parent's dict and of its own class-level dict, with its own value on its
\* own keys, when the parent's dict is non-empty, and its own dict otherwise.
C4_OwnEntriesWin ==
    \A n \in 1..Len(cmds) :
        cmds[n].parent # 0 =>
            /\ C4_Merged(class_flags[cmds[n].cls], cmds[cmds[n].parent].flags.map,
                         cmds[n].flags.map)
            /\ C4_Merged(class_aliases[cmds[n].cls], cmds[cmds[n].parent].aliases.map,
                         cmds[n].aliases.map)

C4_Witness ==
    /\ Len(cmds) = 2
    /\ cmds[2].parent = 1
    /\ cmds[1].flags.map = [k \in {KeyForceGroup, KeyDryRun} |-> "RootCmd"]
    /\ class_flags["SubCmd"] = [k \in {KeyForceGroup} |-> "SubCmd"]
    /\ cmds[2].flags.map = [k \in {KeyForceGroup, KeyDryRun} |->
                              IF k = KeyForceGroup THEN "SubCmd" ELSE "RootCmd"]
    /\ cmds[1].aliases.map = <<>>
    /\ cmds[2].aliases.map = [k \in {KeyLogLevel} |-> "SubCmd"]

\* the tokens of the keys of a flags dict
TokensOf(map) == UNION {Range(k) : k \in DOMAIN map}

\* C5 (as claimed): a child without own flags exposes exactly its parent's
\* flags; for a token the child defines, every entry of the child's flags
\* that carries the token is the child's own; the parent's entries that share
\* no token with the child's are kept.
C5_TokenOverride ==
    \A n \in 1..Len(cmds) :
        cmds[n].parent # 0 =>
            LET own == class_flags[cmds[n].cls]
                par == cmds[cmds[n].parent].flags.map
                res == cmds[n].flags.map
            IN  /\ own = <<>> => res = par
                /\ \A k \in DOMAIN res :
                      Range(k) \cap TokensOf(own) # {}
                          => (k \in DOMAIN own /\ res[k] = own[k])
                /\ \A k \in DOMAIN par :
                      Range(k) \cap TokensOf(own) = {}
                          => (k \in DOMAIN res /\ res[k] = par[k])

-----------------------------------------------------------------------------
(* Claims about the registry.                                              *)

\* the candidate base path without extension, made absolute
BaseC == Cwd \o <<"/", "c">>

\* the files directly matched for BaseC and the recognised fragments of BaseC.d
DirectOfC == {BaseC \o ExtJson, BaseC \o ExtPy} \cap fs_files
FragsOfC ==
    {g \in fs_files \cup fs_dirs :
        /\ osp_split(g)[1] = BaseC \o <<".", "d">>
        /\ \/ EndsWith(osp_split(g)[2], ExtJson)
           \/ EndsWith(osp_split(g)[2], ExtPy)}

\* the order C6 requires between two returned paths
C6_Before(f, g) ==
    \/ f \in DirectOfC /\ g \in FragsOfC
    \/ f \in DirectOfC /\ g \in DirectOfC /\ f = BaseC \o ExtJson /\ g = BaseC \o ExtPy
    \/ f \in FragsOfC /\ g \in FragsOfC /\ StrLess(osp_split(f)[2], osp_split(g)[2])

\* C6: for the single candidate `c` (no extension) collect_fpaths returns
\* exactly the existing c.json, c.py and the entries of c.d/ whose names end in
\* a configured extension, each once, c.json before c.py, direct files before
\* fragments, fragments in lexicographic order of their names.
C6_CollectOrder ==
    (last.op = "collect_fpaths" /\ last.arg = <<(<<"c">>)>>) =>
        /\ Range(last.ret) = DirectOfC \cup FragsOfC
        /\ \A i, j \in 1..Len(last.ret) : i < j => C6_Before(last.ret[i], last.ret[j])

C6_Witness ==
    /\ last.op = "collect_fpaths"
    /\ last.arg = <<(<<"c">>)>>
    /\ PathFragBad \in fs_files
    /\ last.ret = <<PathCJson, PathCPy, PathFragJson, PathFragPy>>

\* C7 (as claimed): a candidate given with an extension whose file exists is
\* never retried with the extension stripped, so a path list naming only the
\* existing c.json never makes the sibling c.py collected.
C7_NoSiblingOfExisting ==
    (/\ last.op = "collect_fpaths"
     /\ Range(last.arg) = {PathCJson}
     /\ PathCJson \in fs_files) => PathCPy \notin Range(last.ret)

\* C8 (as claimed): discovery on a fresh registry never visits a collected
\* path twice: no record of a loaded file occurs twice in the visit list.
C8_NoRevisit ==
    (last.op = "collect_fpaths" /\ last.pre.visited_tuples = <<>>) =>
        \A i, j \in 1..Len(cfr.visited_tuples) :
            (i < j /\ cfr.visited_tuples[i][2] # None)
                => cfr.visited_tuples[i] # cfr.visited_tuples[j]

\* the positions of a visit list where a run of equal folders starts
RunStarts(v) == {i \in 1..Len(v) : i = 1 \/ v[i][1] # v[i - 1][1]}

\* the last position of the run starting at s
RunEnd(v, s) ==
    LET later == {t \in RunStarts(v) : t > s}
    IN  IF later = {} THEN Len(v)
        ELSE (CHOOSE t \in later : \A u \in later : t <= u) - 1

\* the non-None file names of the records s..e, in record order
RunNames(v, s, e) ==
    LET F[i \in (s - 1)..e] ==
            IF i < s THEN <<>>
            ELSE IF v[i][2] # None THEN Append(F[i - 1], v[i][2][1]) ELSE F[i - 1]
    IN  F[e]

C10_Reversed ==
    (last.op = "config_tuples" /\ cfr.visited_tuples # <<>>) =>
        /\ last.ret = Reverse(consolidate(cfr.visited_tuples))
        /\ last.ret[1][1] = cfr.visited_tuples[Len(cfr.visited_tuples)][1]
        /\ last.ret[Len(last.ret)][1] = cfr.visited_tuples[1][1]


\* C11 (as claimed): in every state of a registry, a fresh one included,
\* visit_file(path, loaded) raises nothing, appends exactly the record
\* (dirname(path), basename(path) if loaded else None) to the visit list,
\* adds path to the collected set when loaded and leaves the collected set
\* alone otherwise.
C11_VisitAlwaysRecords ==
    last.op = "visit_file" =>
        /\ last.exc = "none"
        /\ cfr.visited_tuples =
              Append(last.pre.visited_tuples,
                     <<osp_split(last.arg[1])[1],
                       IF last.arg[2] THEN Some(osp_split(last.arg[1])[2]) ELSE None>>)
        /\ last.arg[2] => last.arg[1] \in Range(cfr.collected_paths)
        /\ ~last.arg[2] => cfr.collected_paths = last.pre.collected_paths


\* the texts of the elements of a raw list
TextsOf(raw) == [i \in 1..Len(raw) |-> raw[i].text]

\* the string forms of the elements of a raw list
StrFormsOf(raw) == [i \in 1..Len(raw) |-> str_form(raw[i])]

\* the result is the in-order concatenation of `forms` split on os.pathsep:
\* no fragment holds a separator and joining the fragments with the
\* separator gives the forms joined with the separator
C12_SplitsOf(result, forms) ==
    /\ \A i \in 1..Len(result) : PathSep \notin Range(result[i])
    /\ forms = <<>> => result = <<>>
    /\ forms # <<>> =>
          /\ result # <<>>
          /\ str_join(result, PathSep) = str_join(forms, PathSep)

TerminalNodes == {n \in 1..Len(cmds) : cmds[n].subapp = 0}

\* C13: start() on the root of a chain invokes run exactly once, on the node
\* without child, with that node's extra_args; it invokes run on no node
\* that owns a child and gives what that run gave (its value or its error).
C13_StartRunsTerminal ==
    last.op = "start" =>
        /\ Len(last.ret.calls) = 1
        /\ last.ret.calls[1][1] \in TerminalNodes
        /\ last.ret.calls[1][2] = cmds[last.ret.calls[1][1]].extra_args
        /\ last.ret = run(cmds, last.ret.calls[1][1], last.ret.calls[1][2])
        /\ Cardinality(TerminalNodes) = 1

C13_Witness ==
    /\ last.op = "start"
    /\ Len(cmds) = 2
    /\ cmds[1].subapp = 2
    /\ cmds[2].cls = "LeafCmd"
    /\ cmds[2].extra_args = <<"x">>
    /\ last.ret.calls = <<(<<2, <<"x">>>>)>>
    /\ last.ret.result = Some(<<"ran", 2, <<"x">>>>)
    /\ last.exc = "none"

\* C14: starting a node that has no child and keeps the default run raises
\* CmdException exactly when the node declares sub-commands; the message
\* says the sub-command is missing when there are no extra args and names the
\* first extra arg as unknown otherwise, and lists every declared sub-command
\* with its help; in both cases the node has read its config files.
C14_DispatchError ==
    (last.op = "start" /\ ~overrides_run(cmds[last.ret.calls[1][1]].cls)) =>
        LET n == last.ret.calls[1][1]
        IN  /\ (last.exc = "CmdException") <=> (subcommands(cmds[n].cls) # {})
            /\ last.exc = "CmdException" =>
                  /\ last.ret.msg # None
                  /\ cmds[n].extra_args = <<>> =>
                        last.ret.msg[1].subcmd_msg = <<"sub-command is missing">>
                  /\ cmds[n].extra_args # <<>> =>
                        last.ret.msg[1].subcmd_msg =
                            <<"unknown sub-command", cmds[n].extra_args[1]>>
                  /\ {e[1] : e \in last.ret.msg[1].subcmds} = subcommands(cmds[n].cls)
                  /\ \A e \in last.ret.msg[1].subcmds :
                        e[2] = subcommand_help(cmds[n].cls, e[1])
            /\ cmds[n].subapp = 0
            /\ cmds[n].cfgfiles_registry # None

C14_Witness ==
    /\ last.op = "start"
    /\ Len(cmds) = 1
    /\ cmds[1].cls = "RootCmd"
    /\ cmds[1].extra_args = <<"x", "y">>
    /\ cmds[1].cfgfiles_registry # None
    /\ loaded_config_files(cmds[1]) # <<>>
    /\ last.exc = "CmdException"
    /\ last.ret.msg[1].subcmd_msg = <<"unknown sub-command", "x">>


\* what the claimed rule gives for the characters of `stem` from position i
\* on: a hyphen before an upper-case letter that follows a lower-case letter
\* or digit, every letter lower-cased, an underscore turned into a hyphen
RECURSIVE C20_Hyphenated(_, _)
C20_Hyphenated(stem, i) ==
    IF i > Len(stem) THEN <<>>
    ELSE (IF i > 1 /\ stem[i] \in UpperChars /\ stem[i - 1] \in LowerChars \cup DigitChars
          THEN <<"-">> ELSE <<>>)
            \o <<IF stem[i] = "_" THEN "-" ELSE lower_char(stem[i])>>
            \o C20_Hyphenated(stem, i + 1)

\* C20 (as claimed): the name is the type name without a trailing "Cmd"
\* (when longer than 3 characters), hyphenated and lower-cased; it holds no
\* upper-case letter and no underscore.
C20_NameStripsCmd ==
    last.op = "class2cmd_name" =>
        /\ last.ret =
              C20_Hyphenated(IF Len(last.arg) > 3
                                   /\ SubSeq(last.arg, Len(last.arg) - 2, Len(last.arg))
                                         = <<"C", "m", "d">>
                             THEN SubSeq(last.arg, 1, Len(last.arg) - 3)
                             ELSE last.arg, 1)
        /\ Range(last.ret) \cap (UpperChars \cup {"_"}) = {}

\* C20 (amended): the name is the type name without its last three
\* characters when they spell "cmd" in any letter case and the name is longer
\* than 3 characters, hyphenated and lower-cased; it holds no upper-case
\* letter and no underscore.
C20_NameStripsAnyCaseCmd ==
    last.op = "class2cmd_name" =>
        /\ last.ret =
              C20_Hyphenated(IF Len(last.arg) > 3
                                   /\ \A j \in 1..3 :
                                         last.arg[Len(last.arg) - 3 + j]
                                            \in <<{"C", "c"}, {"M", "m"}, {"D", "d"}>>[j]
                             THEN SubSeq(last.arg, 1, Len(last.arg) - 3)
                             ELSE last.arg, 1)
        /\ Range(last.ret) \cap (UpperChars \cup {"_"}) = {}

C20_Witness ==
    /\ last.op = "class2cmd_name"
    /\ last.arg = <<"o", "B", "C", "m", "d">>
    /\ last.ret = <<"o", "-", "b">>


\* whether a file was at the target of the last write before the call
C15_TargetExisted ==
    /\ last.ret.target # None
    /\ os_resolve(last.ret.target[1]) \in last.pre.files

\* C15: write_default_config with force false on a target (with its .py
\* extension) where a file exists raises CmdException and changes nothing:
\* every file keeps its content, no file and no directory is added.
C15_RefusesOverwrite ==
    (last.op = "write_default_config" /\ ~last.arg.force /\ C15_TargetExisted) =>
        /\ last.exc = "CmdException"
        /\ EndsWith(last.ret.target[1], ExtPy)
        /\ last.ret.backup = None
        /\ file_cfg = last.pre.cfg
        /\ fs_files = last.pre.files
        /\ fs_dirs = last.pre.dirs

C15_Witness ==
    /\ last.op = "write_default_config"
    /\ last.arg.config_file = Some(<<"c">>)
    /\ ~last.arg.force
    /\ last.ret.target = Some(PathCPy)
    /\ last.exc = "CmdException"
    /\ file_cfg[PathCPy] = Outcome("config", [k \in {"Cmd.a"} |-> 1])

\* C16: write_default_config with force true on an existing target moves
\* the file to `<target-without-ext>-<timestamp>.py` and writes the default
\* content to the target: the target holds the new content, the backup the
\* old one, every other file is as before; without a file at the target the
\* content is written and no other file appears or changes.
C16_ForceBacksUp ==
    (last.op = "write_default_config" /\ last.ret.target # None
        /\ (last.arg.force \/ ~C15_TargetExisted)) =>
        LET target == os_resolve(last.ret.target[1])
        IN  /\ last.exc = "none"
            /\ EndsWith(target, ExtPy)
            /\ file_cfg[target] = DefaultContent
            /\ IF C15_TargetExisted
               THEN /\ last.ret.backup =
                          Some(SubSeq(last.ret.target[1], 1, Len(last.ret.target[1]) - 3)
                                  \o <<"-">> \o last.arg.now \o ExtPy)
                    /\ file_cfg[os_resolve(last.ret.backup[1])] = last.pre.cfg[target]
                    /\ fs_files = last.pre.files \cup {os_resolve(last.ret.backup[1])}
                    /\ \A f \in last.pre.files \ {target, os_resolve(last.ret.backup[1])} :
                          file_cfg[f] = last.pre.cfg[f]
               ELSE /\ last.ret.backup = None
                    /\ fs_files = last.pre.files \cup {target}
                    /\ \A f \in last.pre.files : file_cfg[f] = last.pre.cfg[f]

C16_Witness ==
    /\ last.op = "write_default_config"
    /\ last.arg.force
    /\ last.arg.now = <<"1">>
    /\ last.ret.target = Some(PathCPy)
    /\ last.ret.backup = Some(Cwd \o <<"/", "c", "-", "1">> \o ExtPy)
    /\ last.pre.cfg[PathCPy] = Outcome("config", [k \in {"Cmd.a"} |-> 1])
    /\ file_cfg[PathCPy] = DefaultContent
    /\ file_cfg[Cwd \o <<"/", "c", "-", "1">> \o ExtPy] = Outcome("config", [k \in {"Cmd.a"} |-> 1])

\* C17 (as claimed): write_default_config without config_file on a node
\* whose config_paths is empty fails with an error main() handles in its
\* user-facing branch (as it does CmdException), and writes nothing.
C17_NoTargetIsUserFacing ==
    (last.op = "write_default_config" /\ last.arg.config_file = None
        /\ config_paths = <<>>) =>
        /\ main_branch(last.exc) = "user_facing"
        /\ file_cfg = last.pre.cfg
        /\ fs_files = last.pre.files


\* whether a file that fails to parse is among the files node n collected
C18_CollectedParseError(n) ==
    \E f \in Range(cmds[n].cfgfiles_registry[1].collected_paths) :
        file_cfg[f].kind = "parse_error"

\* C18: a collected file that no longer exists gives no config and no
\* error; a file that fails to parse makes initialize raise when
\* raise_config_file_errors is set, and then the node's config holds no file
\* value; otherwise it gives no config and every other collected file is
\* loaded and merged as if the failed file were not there.
C18_LoadFailures ==
    last.op \in {"make_cmd", "chain_cmds"} =>
        /\ \A n \in 1..Len(cmds) :
              cmds[n].cfgfiles_registry # None =>
                  IF cmds[n].raise_config_file_errors /\ C18_CollectedParseError(n)
                  THEN /\ last.exc = "ConfigError"
                       /\ cmds[n].config = cmds[n].cli_config
                  ELSE /\ \A k \in Keys : C1_KeyResolved(cmds[n], k)
                       /\ \A f \in Range(cmds[n].cfgfiles_registry[1].collected_paths) :
                             Loads(f) => DOMAIN file_cfg[f].cfg \subseteq DOMAIN cmds[n].config
        /\ last.exc = "ConfigError" =>
              \E n \in 1..Len(cmds) :
                  /\ cmds[n].cfgfiles_registry # None
                  /\ cmds[n].raise_config_file_errors
                  /\ C18_CollectedParseError(n)

C18_Witness ==
    /\ last.op = "make_cmd"
    /\ last.exc = "none"
    /\ config_paths = <<(<<"c">>)>>
    /\ Len(cmds) = 1
    /\ ~cmds[1].raise_config_file_errors
    /\ cmds[1].cfgfiles_registry[1].collected_paths = <<PathCJson, PathCPy, PathFragJson>>
    /\ file_cfg[PathCJson].kind = "parse_error"
    /\ file_cfg[PathCPy].kind = "vanished"
    /\ file_cfg[PathFragJson] = Outcome("config", [k \in {"Cmd.a"} |-> 2])
    /\ cmds[1].config = [k \in {"Cmd.a"} |-> 2]


\* the keys two files set to different values
C19_Differing(f, g) ==
    {k \in DOMAIN file_cfg[f].cfg \cap DOMAIN file_cfg[g].cfg :
        file_cfg[f].cfg[k] # file_cfg[g].cfg[k]}

\* the pairs (i, j) of positions in the collected paths of a node, i before
\* j, whose files both loaded and set some key differently
C19_CollidingPairs(coll) ==
    {p \in (1..Len(coll)) \X (1..Len(coll)) :
        /\ p[1] < p[2]
        /\ Loads(coll[p[1]]) /\ Loads(coll[p[2]])
        /\ C19_Differing(coll[p[1]], coll[p[2]]) # {}}

\* C19: in a pass that raised nothing, each pair of loaded files that set a
\* key differently gets exactly one warning, which names both files, gives
\* the differing keys and says that the file merged later, the one of higher
\* priority (collected first), wins; there is no other warning, the pass is
\* not aborted by a collision and the merge result is decided by priority.
C19_CollisionWarnings ==
    last.op \in {"make_cmd", "chain_cmds"} =>
        \A n \in 1..Len(cmds) :
            (/\ cmds[n].cfgfiles_registry # None
             /\ ~(cmds[n].raise_config_file_errors /\ C18_CollectedParseError(n))) =>
                LET coll == cmds[n].cfgfiles_registry[1].collected_paths
                IN  /\ last.exc = "none"
                    /\ Len(cmds[n].warnings) = Cardinality(C19_CollidingPairs(coll))
                    /\ \A p \in C19_CollidingPairs(coll) :
                          \E i \in 1..Len(cmds[n].warnings) :
                              /\ cmds[n].warnings[i].first = coll[p[2]]
                              /\ cmds[n].warnings[i].second = coll[p[1]]
                              /\ cmds[n].warnings[i].higher = coll[p[1]]
                              /\ cmds[n].warnings[i].keys = C19_Differing(coll[p[1]], coll[p[2]])
                    /\ \A k \in Keys : C1_KeyResolved(cmds[n], k)

C19_Witness ==
    /\ last.op = "make_cmd"
    /\ last.exc = "none"
    /\ Len(cmds) = 1
    /\ cmds[1].cfgfiles_registry[1].collected_paths = <<PathCJson, PathCPy, PathFragJson>>
    /\ file_cfg[PathCJson] = Outcome("config", [k \in {"Cmd.a"} |-> 1])
    /\ file_cfg[PathCPy] = Outcome("config", [k \in {"Cmd.a"} |-> 2])
    /\ file_cfg[PathFragJson] = Outcome("config", [k \in {"Cmd.a"} |-> 2])
    /\ Len(cmds[1].warnings) = 2
    /\ cmds[1].config = [k \in {"Cmd.a"} |-> 1]

-----------------------------------------------------------------------------
(* A sub-command and its ancestors; the lists handed to chain_cmds.        *)

\* the traits of the classes: a and b belong to RootCmd, s to SubCmd
KeyRootA == "RootCmd.a"
KeyRootB == "RootCmd.b"
KeySubS == "SubCmd.s"

\* the class a dotted key addresses
key_section(k) ==
    CASE k \in {KeyRootA, KeyRootB} -> "RootCmd"
      [] k = KeySubS -> "SubCmd"
      [] OTHER -> "Cmd"

\* Configurable.section_names: the class and the classes it derives from
section_names(cls) == {cls, "Cmd"}

\* the trait values a node has taken from its config: the entries of the
\* sections of its class
trait_values(node) ==
    [k \in {j \in DOMAIN node.config : key_section(j) \in section_names(node.cls)} |->
        node.config[k]]

\* the config files: c.json may set RootCmd.b and SubCmd.s, c.py RootCmd.b
ChainFileConfigs ==
    {[f \in CmdFiles |-> IF f = PathCJson THEN j ELSE IF f = PathCPy THEN p
                         ELSE Outcome("absent", EmptyCfg)] :
        j \in {Outcome("absent", EmptyCfg)} \cup
              {Outcome("config", [k \in D |-> IF k = KeyRootB THEN 2 ELSE -1]) :
                  D \in SUBSET {KeyRootB, KeySubS}},
        p \in {Outcome("absent", EmptyCfg), Outcome("config", [k \in {KeyRootB} |-> 1])}}

\* the command line: `sub` or not, then --RootCmd.a=1 or not
ChainCliConfigs == {EmptyCfg, [k \in {KeyRootA} |-> 1]}
ChainArgvs == {Argv(sub, cli) : sub \in BOOLEAN, cli \in ChainCliConfigs}

\* the lists handed to chain_cmds
ChainLists == SeqsUpTo(CmdClasses \cup {SpecClass, NotAClass}, MaxChain)

InitChain ==
    /\ file_cfg \in ChainFileConfigs
    /\ fs_files = FilesOf(file_cfg)
    /\ fs_dirs = DirsOf(file_cfg)
    /\ config_paths \in {<<>>, <<(<<"c">>)>>}
    /\ cfr = NewRegistry
    /\ cmds = <<>>
    /\ class_flags = CmdClassFlags
    /\ class_aliases = CmdClassFlags
    /\ last = NoOp
    /\ nops = 0

NextChain ==
    \/ \E argv \in ChainArgvs, strict \in BOOLEAN : MakeCmd(argv, strict)
    \/ \E app_classes \in ChainLists, cli \in ChainCliConfigs : ChainCmds(app_classes, cli)

SpecChain == InitChain /\ [][NextChain]_vars

-----------------------------------------------------------------------------
(* Claims about sub-commands, ancestors and chains.                        *)

\* the value initialize resolves for key k on the sub-command: the command
\* line's, else the one of the first-collected loaded file that sets it
C21_Resolved(k) ==
    IF k \in DOMAIN last.arg.cli THEN Some(last.arg.cli[k])
    ELSE IF SettersOf(cmds[2], k) # <<>>
    THEN Some(file_cfg[SettersOf(cmds[2], k)[1]].cfg[k])
    ELSE None

\* whether the resolved value of key k, if any, is a trait value of the node
C21_Applied(node, k) ==
    C21_Resolved(k) # None =>
        /\ k \in DOMAIN trait_values(node)
        /\ trait_values(node)[k] = C21_Resolved(k)[1]

\* C21 (as claimed): after root.initialize(argv) dispatched to the
\* sub-command, the file value and the command-line value addressed to the
\* root's class are applied to the root node, and the file value addressed to
\* the sub-command's class is applied to the sub-command.
C21_SubcmdConfiguresParents ==
    (last.op = "make_cmd" /\ last.exc = "none" /\ Len(cmds) = 2 /\ cmds[1].subapp = 2) =>
        /\ C21_Applied(cmds[1], KeyRootA)
        /\ C21_Applied(cmds[1], KeyRootB)
        /\ C21_Applied(cmds[2], KeySubS)

\* C24 (as claimed): chain_cmds hands argv to the first command only; a later
\* command of the chain is initialized without the command-line args, so
\* none of the command line's values reaches it.
C24_ArgvToRootOnly ==
    (last.op = "chain_cmds" /\ last.exc = "none") =>
        \A n \in 2..Len(cmds) :
            cmds[1].cli_config # EmptyCfg =>
                /\ cmds[n].argv # cmds[1].argv
                /\ cmds[n].cli_config = EmptyCfg

\* the chain C25 requires for a non-empty list of command classes: one node
\* per class in list order, each the child of the one before it
C25_Linked(classes) ==
    /\ Len(cmds) = Len(classes)
    /\ \A i \in 1..Len(classes) :
          /\ cmds[i].cls = classes[i]
          /\ cmds[i].parent = i - 1
          /\ cmds[i].subapp = IF i < Len(classes) THEN i + 1 ELSE 0

\* C25 (as claimed): chain_cmds on a non-empty list of command classes links
\* one instance per class, root first; on an empty list it raises ValueError
\* and constructs nothing; on an element that is no command class it raises
\* ValueError.
C25_ChainLinked ==
    last.op = "chain_cmds" =>
        IF last.arg = <<>> THEN last.exc = "ValueError" /\ cmds = <<>>
        ELSE IF \E i \in 1..Len(last.arg) : ~is_command_class(last.arg[i])
        THEN last.exc = "ValueError"
        ELSE last.exc = "none" /\ C25_Linked(last.arg)

\* the part of C25 about lists of command classes and objects that are no
\* classes with traits
C25_ChainLinkedOfClasses ==
    (last.op = "chain_cmds" /\ \A i \in 1..Len(last.arg) : last.arg[i] # SpecClass) =>
        C25_ChainLinked

-----------------------------------------------------------------------------
(* The entrypoint main().                                                  *)

\* Python values main() handles: a bool, an int or None
PyBool(b) == <<"bool", b>>
PyInt(i) == <<"int", i>>

\* `x and 0`: x itself when it is falsy, else 0
and_zero(x) == IF x = PyBool(TRUE) THEN PyInt(0) ELSE x

\* the exit status of a process that ends with sys.exit(x): None is 0, a
\* bool counts as the int it is
exit_status(x) ==
    IF x = None THEN 0 ELSE IF x[1] = "bool" THEN (IF x[2] THEN 1 ELSE 0) ELSE x[2]

\* pump_cmd(cmd_res): the results are consumed and bool(cmd_res) is returned
pump_cmd(cmd_res) == PyBool(cmd_res # None)

\* exit_with_pride(reason): a message gives code 1 without stack trace, an
\* exception gives code -1 with the stack trace on the error stream
exit_with_pride(reason_is_exception) ==
    IF reason_is_exception
    THEN [code |-> PyInt(-1), stack_trace |-> TRUE, reason |-> "exception"]
    ELSE [code |-> PyInt(1), stack_trace |-> FALSE, reason |-> "message"]

\* what the run() of a command that overrides it may do: return a result,
\* return nothing, or raise
Raised(exc) == [exc |-> exc, result |-> None]
LeafOutcomes ==
    {[exc |-> "none", result |-> r] : r \in {None, Some("out")}}
        \cup {Raised(e) : e \in {"CmdException", "TraitError", "OSError", "KeyboardInterrupt"}}

\* cmd.start(): where the chain ends in a run() of the command's own, that
\* run decides the outcome
start_outcome(r, leaf) == IF r.exc = "none" THEN leaf ELSE Raised(r.exc)

\* the try-block of main() after make_cmd gave `made`
main_started(made, leaf) ==
    IF made.exc # "none" THEN Raised(made.exc) ELSE start_outcome(start(made.cmds, 1), leaf)

\* what main() gives for the outcome of its try-block: the value returned
\* and how the error was reported, or the exception that leaves main()
main_result(out) ==
    CASE main_branch(out.exc) = "returns" ->
            [returned |-> Some(and_zero(pump_cmd(out.result))), escaped |-> "none",
             stack_trace |-> FALSE, reason |-> "none"]
      [] main_branch(out.exc) = "user_facing" ->
            [returned |-> Some(exit_with_pride(FALSE).code), escaped |-> "none",
             stack_trace |-> exit_with_pride(FALSE).stack_trace,
             reason |-> exit_with_pride(FALSE).reason]
      [] main_branch(out.exc) = "stacktrace" ->
            [returned |-> Some(exit_with_pride(TRUE).code), escaped |-> "none",
             stack_trace |-> exit_with_pride(TRUE).stack_trace,
             reason |-> exit_with_pride(TRUE).reason]
      [] OTHER ->
            [returned |-> None, escaped |-> out.exc, stack_trace |-> FALSE,
             reason |-> "none"]

\* the command made and the outcome of the try-block: a command line that
\* asks for help or the version makes make_cmd print and raise SystemExit
main_try(cls, argv, help, leaf) ==
    IF help THEN [cmds |-> construct(<<>>, cls, 0, FALSE), out |-> Raised("SystemExit")]
    ELSE LET made == initialize(construct(<<>>, cls, 0, FALSE), 1, argv)
         IN  [cmds |-> made.cmds, out |-> main_started(made, leaf)]

\* main(argv) with the root command class cls
Main(cls, argv, help, leaf) ==
    /\ \E t \in {main_try(cls, argv, help, leaf)} :
          /\ cmds' = t.cmds
          /\ last' = OpRecord("main", [cls |-> cls, argv |-> argv, help |-> help],
                              main_result(t.out), t.out, t.out.exc)
    /\ nops' = nops + 1
    /\ UNCHANGED <<fs_files, fs_dirs, file_cfg, config_paths, cfr, class_flags, class_aliases>>

NextMain ==
    /\ last.op = "none"
    /\ \E cls \in {"RootCmd", "LeafCmd"}, argv \in StartArgvs, help \in BOOLEAN,
          leaf \in LeafOutcomes : Main(cls, argv, help, leaf)

SpecMain == InitStart /\ [][NextMain]_vars

\* what C22 requires of main() when the try-block ends without exception or
\* with one that derives from Exception
C22_Handled ==
    /\ last.pre.exc = "none" =>
          /\ last.ret.returned # None
          /\ exit_status(last.ret.returned[1]) = 0
          /\ ~last.ret.stack_trace
    /\ last.pre.exc \in {"CmdException", "TraitError"} =>
          /\ last.ret.returned = Some(PyInt(1))
          /\ last.ret.reason = "message"
          /\ ~last.ret.stack_trace
    /\ last.pre.exc \notin {"none", "CmdException", "TraitError"} \cup BaseOnlyKinds =>
          /\ last.ret.returned # None
          /\ exit_status(last.ret.returned[1]) # 0
          /\ last.ret.reason = "exception"
          /\ last.ret.stack_trace

\* C22 (as claimed): main() returns 0 when the chain completes, the failure
\* code made from the message alone for a CmdException or TraitError, the
\* non-zero code made from the exception with its stack trace for any other
\* exception, and no exception of the command chain leaves main().
C22_MainNeverRaises ==
    last.op = "main" => (C22_Handled /\ last.ret.escaped = "none")

\* C22 (amended): as claimed for the outcomes handled, and an exception
\* leaves main() exactly when it does not derive from Exception, as the
\* SystemExit of make_cmd for --help or a KeyboardInterrupt.
C22_MainHandlesExceptions ==
    last.op = "main" =>
        /\ C22_Handled
        /\ (last.ret.escaped # "none") <=> (last.pre.exc \in BaseOnlyKinds)
        /\ last.ret.escaped # "none" =>
              last.ret.escaped = last.pre.exc /\ last.ret.returned = None

C22_Witness ==
    /\ last.op = "main"
    /\ last.arg.cls = "LeafCmd"
    /\ last.pre.exc = "TraitError"
    /\ last.ret.returned = Some(PyInt(1))
    /\ ~last.ret.stack_trace

-----------------------------------------------------------------------------
(* polyversion(): the version of a project out of `git describe`.          *)

\* the regex classes \d and [a-f\d] under the (?i) flag
IsDigit(c) == c \in {"0", "1", "2", "3", "4", "5", "6", "7", "8", "9"}
IsHex(c) == IsDigit(c) \/ lower_char(c) \in {"a", "b", "c", "d", "e", "f"}

\* bytes.strip()
Whitespace == <<" ", "\n">>
str_strip(s) == Reverse(rstrip(Reverse(rstrip(s, Whitespace)), Whitespace))

\* clean_cmd_result(res): the stripped output, None when nothing is left
clean_cmd_result(res) == IF str_strip(res) # <<>> THEN Some(str_strip(res)) ELSE None

\* what running git gives: the exception of a git that cannot be started,
\* a non-zero exit code, or the output of a git that succeeded
GitOutcome(exc, out) == [exc |-> exc, out |-> out]

\* _my_run(cmd, cwd)
my_run(git) ==
    IF git.exc # "none" THEN [exc |-> git.exc, res |-> None]
    ELSE [exc |-> "none", res |-> clean_cmd_result(git.out)]

\* the group (?:-(?P<descid>\d+-g[a-f\d]+))?$ on the fragments the text after
\* the version splits into at its dashes
descid_matches(parts) ==
    /\ Len(parts) = 3
    /\ parts[2] # <<>>
    /\ \A i \in 1..Len(parts[2]) : IsDigit(parts[2][i])
    /\ Len(parts[3]) >= 2
    /\ lower_char(parts[3][1]) = "g"
    /\ \A i \in 2..Len(parts[3]) : IsHex(parts[3][i])

\* the groups of the match, given the fragments after `<pname>-v`: the
\* version \d[^-]* is the first fragment
tag_groups(pname, parts) ==
    IF ~(parts[1] # <<>> /\ IsDigit(parts[1][1])) THEN None
    ELSE IF Len(parts) = 1
    THEN Some([pname |-> pname, version |-> parts[1], descid |-> None])
    ELSE IF descid_matches(parts)
    THEN Some([pname |-> pname, version |-> parts[1],
               descid |-> Some(parts[2] \o <<"-">> \o parts[3])])
    ELSE None

\* pvtag_regex.format(pname=project).match(pvtag): the groups, or None
tag_match(pvtag, project) ==
    IF /\ Len(pvtag) >= Len(project) + 2
       /\ str_lower(SubSeq(pvtag, 1, Len(project) + 2)) = str_lower(project \o <<"-", "v">>)
    THEN tag_groups(SubSeq(pvtag, 1, Len(project)),
                    str_split(SubSeq(pvtag, Len(project) + 3, Len(pvtag)), "-"))
    ELSE None

\* split_pvtag(pvtag, pvtag_regex): matching None is a TypeError, no match a
\* ValueError
split_pvtag(pvtag, project) ==
    IF pvtag = None THEN [exc |-> "TypeError", groups |-> None]
    ELSE IF tag_match(pvtag[1], project) = None THEN [exc |-> "ValueError", groups |-> None]
    ELSE [exc |-> "none", groups |-> tag_match(pvtag[1], project)]

\* str.replace('-', '.')
replace_dashes(s) == [i \in 1..Len(s) |-> IF s[i] = "-" THEN "." ELSE s[i]]

\* version_from_descid(version, descid)
version_from_descid(version, descid) == version \o <<"+">> \o replace_dashes(descid)

\* the try-block of polyversion after the tag was split
version_of_groups(split) ==
    IF split.exc # "none" THEN [exc |-> split.exc, version |-> None]
    ELSE IF split.groups[1].descid # None
    THEN [exc |-> "none",
          version |-> Some(version_from_descid(split.groups[1].version,
                                               split.groups[1].descid[1]))]
    ELSE [exc |-> "none", version |-> Some(split.groups[1].version)]

\* the try-block of polyversion
polyversion_try(project, ran) ==
    IF ran.exc # "none" THEN [exc |-> ran.exc, version |-> None]
    ELSE version_of_groups(split_pvtag(ran.res, project))

\* the end of polyversion, given what its try-block gave
polyversion_end(default, t) ==
    IF t.exc # "none" /\ default = None THEN [exc |-> t.exc, ret |-> None]
    ELSE IF t.version = None \/ t.version = Some(<<>>) THEN [exc |-> "none", ret |-> default]
    ELSE [exc |-> "none", ret |-> t.version]

\* a polyversion that takes an empty default for no default
polyversion_falsy_default(project, default, git) ==
    polyversion_end(IF default = Some(<<>>) THEN None ELSE default,
                    polyversion_try(project, my_run(git)))

\* polyversion(project, default) with git behaving as `git`
polyversion(project, default, git) ==
    polyversion_end(default, polyversion_try(project, my_run(git)))

\* the outputs of git: a project, a separator, a version, what follows the
\* version and the end of the line, each right or wrong
GitOutputs ==
    {prefix \o sep \o version \o suffix \o trail :
        prefix \in {<<"p">>, <<"P">>, <<"q">>, <<>>},
        sep \in {<<"-", "v">>, <<"-", "V">>, <<"v">>, <<"-">>},
        version \in {<<"1">>, <<"1", ".", "x">>, <<"x">>, <<>>},
        suffix \in {<<>>, <<"-", "2", "-", "g", "a">>, <<"-", "2", "-", "G", "A", "1">>,
                    <<"-", "2", "-", "g", "x">>, <<"-", "2">>, <<"-", "x", "-", "g", "a">>,
                    <<"-", "2", "-", "g">>, <<"-", "-", "g", "a">>},
        trail \in {<<>>, <<"\n">>}}
GitOutcomes ==
    {GitOutcome("none", out) : out \in GitOutputs}
        \cup {GitOutcome("CalledProcessError", <<>>), GitOutcome("FileNotFoundError", <<>>)}
Projects == {<<"p">>, <<"q">>}
Defaults == {None, Some(<<>>), Some(<<"0", ".", "0">>)}

Polyversion(project, default, git) ==
    /\ \E r \in {polyversion(project, default, git)} :
          last' = OpRecord("polyversion", [project |-> project, default |-> default, git |-> git],
                           r.ret, cfr, r.exc)
    /\ UNCHANGED <<fs_files, fs_dirs, file_cfg, config_paths, cfr, cmds, class_flags,
                   class_aliases, nops>>

\* one version is asked for in a behaviour
NextPolyversion ==
    /\ last.op = "none"
    /\ \E project \in Projects, default \in Defaults, git \in GitOutcomes :
          Polyversion(project, default, git)

SpecPolyversion == InitName /\ [][NextPolyversion]_vars

\* what C23 requires for a tag read as `<project>-v<version>` or as
\* `<project>-v<version>-<count>-g<hex>`, for every place the tag may be cut
C23_Versions(tag, project) ==
    {SubSeq(tag, Len(project) + 3, i) : i \in {Len(tag)} \cap (Len(project) + 3)..Len(tag)}
        \cup {SubSeq(tag, Len(project) + 3, i) \o <<"+">> \o SubSeq(tag, i + 2, j - 1)
                \o <<".">> \o SubSeq(tag, j + 1, Len(tag)) :
                <<i, j>> \in {<<i, j>> \in (1..Len(tag)) \X (1..Len(tag)) :
                    /\ Len(project) + 3 <= i /\ i + 2 < j /\ j + 1 < Len(tag)
                    /\ tag[i + 1] = "-" /\ tag[j] = "-"
                    /\ tag[j + 1] \in {"g", "G"}
                    /\ \A k \in (i + 2)..(j - 1) : IsDigit(tag[k])
                    /\ \A k \in (j + 2)..Len(tag) : IsHex(tag[k])}}

\* whether a text starts as a tag of the project, in any letter case
C23_Tagged(tag, project) ==
    /\ Len(tag) >= Len(project) + 3
    /\ str_lower(SubSeq(tag, 1, Len(project))) = str_lower(project)
    /\ tag[Len(project) + 1] = "-"
    /\ tag[Len(project) + 2] \in {"v", "V"}
    /\ IsDigit(tag[Len(project) + 3])

\* the version C23 requires for an output of git, if it is a tag of the
\* project: the version part of a tag holds no dash
C23_Expected(tag, project) ==
    IF C23_Tagged(tag, project)
    THEN {v \in C23_Versions(tag, project) : \A k \in 1..Len(v) : v[k] # "-"}
    ELSE {}

\* C23: when git fails or its output is no tag of the project, polyversion
\* re-raises if default is None and else returns default, the empty string
\* included; when the output is a tag, it returns the tag's version, with
\* `+` and the describe-suffix with its dash turned into a dot appended iff
\* there is a suffix.
C23_Polyversion ==
    last.op = "polyversion" =>
        LET a == last.arg
            expected == IF a.git.exc = "none"
                        THEN C23_Expected(str_strip(a.git.out), a.project) ELSE {}
        IN  IF expected = {}
            THEN IF a.default = None
                 THEN /\ last.exc # "none"
                      /\ (a.git.exc # "none" => last.exc = a.git.exc)
                 ELSE last.exc = "none" /\ last.ret = a.default
            ELSE /\ last.exc = "none"
                 /\ last.ret # None
                 /\ last.ret[1] \in expected
                 /\ last.ret # a.default

C23_Witness ==
    /\ last.op = "polyversion"
    /\ last.arg.git.exc = "CalledProcessError"
    /\ last.arg.default = Some(<<>>)
    /\ last.exc = "none"
    /\ last.ret = Some(<<>>)

-----------------------------------------------------------------------------
(* The fragments directories of a candidate base path.                     *)

\* the second loop of try_file_extensions: for '' and every configured
\* extension the base path ends with, in that order, the extension and the
\* fragments directory probed for it
probed_conf_ds(basepath) ==
    LET ends == SelectSeq(<<(<<>>)>> \o supported_cfg_extensions,
                          LAMBDA ext : EndsWith(basepath, ext))
    IN  [i \in 1..Len(ends) |-> <<ends[i], conf_d_of(basepath, ends[i])>>]

\* longest base name, before its extension, of the candidates
MaxStem == 4

\* the candidate base paths: a name in the working directory, without
\* extension or with a configured one
StemChars == {"c", "o", "p", "y", "."}
BasePaths ==
    {Cwd \o <<"/">> \o stem \o ext :
        stem \in SeqsUpTo(StemChars, MaxStem) \ {<<>>},
        ext \in {<<>>, ExtJson, ExtPy}}

ProbeConfD(basepath) ==
    /\ last' = OpRecord("probe_conf_d", basepath, probed_conf_ds(basepath), cfr, "none")
    /\ UNCHANGED <<fs_files, fs_dirs, file_cfg, config_paths, cfr, cmds, class_flags,
                   class_aliases, nops>>

\* one candidate is probed in a behaviour
NextConfD ==
    /\ last.op = "none"
    /\ \E basepath \in BasePaths : ProbeConfD(basepath)

SpecConfD == InitName /\ [][NextConfD]_vars

\* C26 (as claimed): for a candidate base path that ends with a configured
\* extension, the fragments directory probed for that extension is the path
\* without the extension, with `.d` appended: nothing but the extension is
\* stripped.
C26_StripsExtensionOnly ==
    last.op = "probe_conf_d" =>
        \A i \in 1..Len(last.ret) :
            last.ret[i][1] # <<>> =>
                last.ret[i][2] = SubSeq(last.arg, 1, Len(last.arg) - Len(last.ret[i][1]))
                                    \o <<".", "d">>

-----------------------------------------------------------------------------
(* Claims about the visit list.                                            *)

\* whether sequence a is a prefix of sequence b
C27_IsPrefix(a, b) == Len(a) <= Len(b) /\ SubSeq(b, 1, Len(a)) = a

\* C27: every visit_file, collect_fpaths, config_tuples and head_folder call
\* leaves the visit list it found as a prefix of the list it leaves, and
\* config_tuples and head_folder change neither the list nor the collected
\* set.
C27_AppendOnly ==
    /\ last.op \in {"visit_file", "collect_fpaths", "config_tuples", "head_folder"} =>
          C27_IsPrefix(last.pre.visited_tuples, cfr.visited_tuples)
    /\ last.op \in {"config_tuples", "head_folder"} =>
          /\ cfr.visited_tuples = last.pre.visited_tuples
          /\ cfr.collected_paths = last.pre.collected_paths
          /\ cfr.has_collected_paths = last.pre.has_collected_paths

C27_Witness ==
    /\ last.op = "collect_fpaths"
    /\ last.pre.visited_tuples # <<>>
    /\ Len(cfr.visited_tuples) > Len(last.pre.visited_tuples) + 1
    /\ \E i \in 1..Len(cfr.visited_tuples) : cfr.visited_tuples[i][2] # None

-----------------------------------------------------------------------------
(* Claims about the parent's dicts.                                        *)

\* the entries node n held when its own attachment was over, class_maps
\* being the class-level flags or aliases
RECURSIVE C28_MapOf(_, _)
C28_MapOf(class_maps, n) ==
    IF cmds[n].parent = 0 THEN class_maps[cmds[n].cls]
    ELSE IF C28_MapOf(class_maps, cmds[n].parent) = <<>> THEN class_maps[cmds[n].cls]
    ELSE dict_update(C28_MapOf(class_maps, cmds[n].parent), class_maps[cmds[n].cls])

\* what C28 requires of the dict of a parent and of the dict of its child,
\* node n, whose own entries before the attachment were `own`
C28_Kept(n, own, kept, parent_dict, child_dict) ==
    /\ parent_dict.map = kept
    /\ (own # <<>> /\ kept # <<>>) =>
          /\ child_dict.obj = <<"merged", n>>
          /\ child_dict.obj # parent_dict.obj
    /\ (own = <<>> /\ kept # <<>>) => child_dict = parent_dict

-----------------------------------------------------------------------------
(* bumpver(): bumping the version, committing and tagging.                 *)

\* the two files holding the version
VFILE == "VFILE"
RFILE == "RFILE"

\* the versions: the one the files hold and another one
OldVer == "1.0"
NewVer == "1.1"

\* the git commands of bumpver
GitCheckout == [git |-> "checkout", files |-> <<"README.rst", "co2mpas/_version.py">>]
GitAdd(files) == [git |-> "add", files |-> files]
GitCommit(msg, amend) == [git |-> "commit", msg |-> msg, amend |-> amend]
GitTag(tag, msg, force) == [git |-> "tag", tag |-> tag, msg |-> msg, force |-> force]

\* what a run of the generator has done so far: the items yielded, the
\* commands executed, the files written and the exception that ended it
Run0 == [yields |-> <<>>, execs |-> <<>>, writes |-> <<>>, exc |-> "none"]
yield(st, item) == IF st.exc # "none" THEN st ELSE [st EXCEPT !.yields = Append(@, item)]
raise(st, exc) == IF st.exc # "none" THEN st ELSE [st EXCEPT !.exc = exc]

\* exec_cmd(cmd): the command is called; a non-zero code is a CmdException
exec_cmd(st, cmd, git_ok) ==
    IF st.exc # "none" THEN st
    ELSE [st EXCEPT !.execs = Append(@, cmd),
                    !.exc = IF git_ok THEN "none" ELSE "CmdException"]

\* one command of do_commit / do_tag: only yielded in a dry run, yielded and
\* executed otherwise
do_cmd(st, cmd, dry_run, git_ok) ==
    IF dry_run THEN yield(st, <<"DRYRUN", cmd>>)
    ELSE exec_cmd(yield(st, <<"EXEC", cmd>>), cmd, git_ok)

\* do_commit(new_ver, old_ver, dry_run, amend, ver_files)
do_commit(st, new_ver, old_ver, dry_run, amend, ver_files, git_ok) ==
    do_cmd(do_cmd(st, GitAdd(ver_files), dry_run, git_ok),
           GitCommit(<<"bump", old_ver, new_ver>>, amend), dry_run, git_ok)

\* do_tag(tag, tag_msg, dry_run, force)
do_tag(st, tag, tag_msg, dry_run, force, git_ok) ==
    do_cmd(st, GitTag(tag, tag_msg, force), dry_run, git_ok)

\* the loop of bumpver over the files whose text is replaced
write_file(st, fpath, dry_run) ==
    yield(IF dry_run \/ st.exc # "none" THEN st ELSE [st EXCEPT !.writes = Append(@, fpath)],
          <<"replaced", fpath>>)

\* run_testcases()
run_testcases(st, tests_ok) == IF tests_ok THEN st ELSE raise(st, "CmdException")

\* the values of tag_name_or_commit besides None: True, or the message of
\* the tag
CommitOnly == [is_str |-> FALSE, text |-> ""]
TagMessage == [is_str |-> TRUE, text |-> "message"]

\* the end of bumpver: commit if tag_name_or_commit is given, tag if it is a
\* string
commit_and_tag(st, new_ver, dry_run, force, amend, tag_name_or_commit, git_ok) ==
    IF tag_name_or_commit = None THEN st
    ELSE IF ~tag_name_or_commit[1].is_str
    THEN do_commit(st, new_ver, OldVer, dry_run, amend, <<VFILE, RFILE>>, git_ok)
    ELSE do_tag(do_commit(st, new_ver, OldVer, dry_run, amend, <<VFILE, RFILE>>, git_ok),
                <<"v", new_ver>>, tag_name_or_commit[1].text, dry_run, force, git_ok)

\* bumpver with a new version, after the old one was extracted
bump(st, new_ver, dry_run, force, amend, tag_name_or_commit, env) ==
    commit_and_tag(
        run_testcases(
            yield(write_file(write_file(
                    IF new_ver # OldVer THEN st
                    ELSE IF force THEN yield(st, <<"already bumped, forced", new_ver>>)
                    ELSE raise(st, "CmdException"),
                    VFILE, dry_run), RFILE, dry_run),
                  <<"launching DocTCs">>),
            env.tests_ok),
        new_ver, dry_run, force, amend, tag_name_or_commit, env.git_ok)

\* extract_file_regexes, then the two branches of bumpver
extract_and_bump(st, new_ver, dry_run, force, amend, tag_name_or_commit, env) ==
    IF ~env.extract_ok THEN raise(st, "CmdException")
    ELSE IF new_ver = None THEN yield(yield(st, <<"version", OldVer>>), <<"date of", OldVer>>)
    ELSE bump(st, new_ver[1], dry_run, force, amend, tag_name_or_commit, env)

\* bumpver(new_ver, dry_run, force, amend, tag_name_or_commit), consumed to
\* its end
bumpver(new_ver, dry_run, force, amend, tag_name_or_commit, env) ==
    extract_and_bump(IF amend THEN exec_cmd(Run0, GitCheckout, env.git_ok) ELSE Run0,
                     new_ver, dry_run, force, amend, tag_name_or_commit, env)

\* what surrounds a call: whether the version is found in the files, whether
\* the doc tests pass, whether git succeeds
BumpEnvs == [extract_ok : BOOLEAN, tests_ok : BOOLEAN, git_ok : BOOLEAN]
BumpVersions == {None, Some(OldVer), Some(NewVer)}
TagChoices == {None, Some(CommitOnly), Some(TagMessage)}

Bumpver(new_ver, dry_run, force, amend, tag_name_or_commit, env) ==
    /\ \E st \in {bumpver(new_ver, dry_run, force, amend, tag_name_or_commit, env)} :
          last' = OpRecord("bumpver",
                           [new_ver |-> new_ver, dry_run |-> dry_run, force |-> force,
                            amend |-> amend, tag_name_or_commit |-> tag_name_or_commit,
                            env |-> env],
                           st, cfr, st.exc)
    /\ UNCHANGED <<fs_files, fs_dirs, file_cfg, config_paths, cfr, cmds, class_flags,
                   class_aliases, nops>>

\* one call in a behaviour
NextBumpver ==
    /\ last.op = "none"
    /\ \E new_ver \in BumpVersions, dry_run \in BOOLEAN, force \in BOOLEAN, amend \in BOOLEAN,
          tag_name_or_commit \in TagChoices, env \in BumpEnvs :
          Bumpver(new_ver, dry_run, force, amend, tag_name_or_commit, env)

SpecBumpver == InitName /\ [][NextBumpver]_vars

\* the positions of the yielded items that announce a git command
C29_DryLines(git) ==
    {i \in 1..Len(last.ret.yields) :
        /\ last.ret.yields[i][1] = "DRYRUN"
        /\ last.ret.yields[i][2].git = git}

\* what C29 requires of the lines of a dry run that ended without exception
\* after a new version was given: one line each for git add and git commit
\* when a commit is asked for, one for git tag when a tag is, in that order
C29_Announced ==
    (last.exc = "none" /\ last.arg.new_ver # None) =>
        /\ \A g \in {"add", "commit"} :
              Cardinality(C29_DryLines(g)) =
                  IF last.arg.tag_name_or_commit # None THEN 1 ELSE 0
        /\ Cardinality(C29_DryLines("tag")) =
              IF last.arg.tag_name_or_commit = Some(TagMessage) THEN 1 ELSE 0
        /\ \A i \in C29_DryLines("add") : \A j \in C29_DryLines("commit") : i < j
        /\ \A i \in C29_DryLines("commit") : \A j \in C29_DryLines("tag") : i < j

\* C29 (as claimed): in a dry run, whatever force, amend and
\* tag_name_or_commit are, no file is written and no git command is executed,
\* and the commit and tag commands are only yielded as DRYRUN lines, git add
\* before git commit before git tag.
C29_DryRunTouchesNothing ==
    (last.op = "bumpver" /\ last.arg.dry_run) =>
        /\ last.ret.writes = <<>>
        /\ last.ret.execs = <<>>
        /\ C29_Announced

\* the part of C29 that holds: a dry run without amend
C29_DryRunWithoutAmend ==
    (last.op = "bumpver" /\ ~last.arg.amend) => C29_DryRunTouchesNothing

\* ---------------------------------------------------------------------
\* Claims about repeated forced writes
\* ---------------------------------------------------------------------

\* the target of the last write and the files moved aside from it
C30_Family(files) ==
    {f \in files :
        \/ f = os_resolve(last.ret.target[1])
        \/ \E now \in Timestamps :
              f = os_resolve(backup_name(last.ret.target[1], now))}

\* C30 (as claimed): after write_default_config calls with force true on
\* one target no earlier content is lost: every content that the target or
\* one of its backup files held before a forced write is still held by the
\* target or by a backup file after it, also when two forced writes carry
\* the same timestamp.
C30_NoContentLost ==
    (last.op = "write_default_config" /\ last.arg.force /\ last.exc = "none"
        /\ last.ret.target # None) =>
        \A f \in C30_Family(last.pre.files) :
            \E g \in C30_Family(fs_files) : file_cfg[g] = last.pre.cfg[f]

\* with differing timestamps (or a first write) the contents are all kept
C30_KeptAcrossTimestamps ==
    (last.op = "write_default_config" /\ last.arg.force /\ last.exc = "none"
        /\ last.ret.target # None
        /\ (last.ret.backup # None =>
                os_resolve(last.ret.backup[1]) \notin last.pre.files)) =>
        \A f \in C30_Family(last.pre.files) :
            \E g \in C30_Family(fs_files) : file_cfg[g] = last.pre.cfg[f]

====
